---- MODULE Spec2Model ----
(***************************************************************************)
(* A model of the MIX virtual machine of modern_legacy (src/runtime).      *)
(*                                                                         *)
(* Words are functions from byte index (0 = sign byte) to 0..255, exactly  *)
(* as Word<N, P> stores them.  64-bit and 128-bit host integers are kept   *)
(* as a sign and a big-endian magnitude of bytes (what to_be_bytes gives), *)
(* because a 5-byte magnitude does not fit the checker's integers.         *)
(* A Rust panic (index out of bounds, arithmetic overflow in a build with  *)
(* overflow checks) is the outcome "Panic": the call never returns.        *)
(***************************************************************************)
EXTENDS Integers, Sequences, FiniteSets, TLC

\* ------------------------------------------------------------------------
\* Program constants
\* ------------------------------------------------------------------------

\* Mem::SIZE
MEM_SIZE == 4000

\* Word::NEG / Word::POS
NEG == 1
POS == 0

\* number of device slots of VM::io_devices
NUM_DEVICES == 21

\* u16 / i16 limits
U16_MAX == 65535
I16_MAX == 32767

\* ------------------------------------------------------------------------
\* Bounds of the model
\* ------------------------------------------------------------------------

\* number of instructions a run fetches
MaxSteps == 2

\* ------------------------------------------------------------------------
\* Host integers as sign and magnitude (big-endian bytes, index 0 first)
\* ------------------------------------------------------------------------

\* a byte array as a value: every element computed once, when it is built
Arr(f) == f @@ <<>>

\* the value of an expression evaluated once: the element of a singleton set
The(S) == CHOOSE x \in S : TRUE

\* an all-zero magnitude of n bytes
MagZero(n) == Arr([i \in 0..(n - 1) |-> 0])

MagIsZero(m) == \A i \in DOMAIN m : m[i] = 0

\* number of bytes of a magnitude
MagLen(m) == Cardinality(DOMAIN m)

\* carry into byte position i (carry out of position i+1) when adding a and b
RECURSIVE MagCarry(_, _, _)
MagCarry(a, b, i) ==
    IF i >= MagLen(a) - 1 THEN 0
    ELSE (a[i + 1] + b[i + 1] + MagCarry(a, b, i + 1)) \div 256

\* a + b, truncated to the length of a
MagAdd(a, b) == Arr([i \in DOMAIN a |-> (a[i] + b[i] + MagCarry(a, b, i)) % 256])

\* borrow taken from byte position i when subtracting b from a
RECURSIVE MagBorrow(_, _, _)
MagBorrow(a, b, i) ==
    IF i >= MagLen(a) - 1 THEN 0
    ELSE IF a[i + 1] - b[i + 1] - MagBorrow(a, b, i + 1) < 0 THEN 1 ELSE 0

\* a - b for a >= b
MagSub(a, b) == Arr([i \in DOMAIN a |-> (a[i] - b[i] - MagBorrow(a, b, i) + 256) % 256])

\* a < b, most significant byte first
RECURSIVE MagLessFrom(_, _, _)
MagLessFrom(a, b, i) ==
    IF i >= MagLen(a) THEN FALSE
    ELSE IF a[i] # b[i] THEN a[i] < b[i]
    ELSE MagLessFrom(a, b, i + 1)

MagLess(a, b) == MagLessFrom(a, b, 0)

\* a signed host integer; zero has no sign
HostInt(neg, mag) == [neg |-> neg /\ ~MagIsZero(mag), mag |-> mag]

HostNeg(v) == HostInt(~v.neg, v.mag)

\* v + w in i64 (no wrap can occur below 2^63)
HostAdd(v, w) ==
    IF v.neg = w.neg THEN HostInt(v.neg, MagAdd(v.mag, w.mag))
    ELSE IF MagLess(v.mag, w.mag) THEN HostInt(w.neg, MagSub(w.mag, v.mag))
    ELSE HostInt(v.neg, MagSub(v.mag, w.mag))

\* w - v instead of v - w
HostSubSwapped(v, w) == HostAdd(w, HostNeg(v))

HostSub(v, w) == HostAdd(v, HostNeg(w))

\* i64::signum
HostSignum(v) == IF MagIsZero(v.mag) THEN 0 ELSE IF v.neg THEN -1 ELSE 1

\* the value of a host integer whose magnitude fits the low 3 bytes
HostToInt(v) ==
    LET n == MagLen(v.mag)
        m == v.mag[n - 3] * 65536 + v.mag[n - 2] * 256 + v.mag[n - 1]
    IN  IF v.neg THEN -m ELSE m

\* a small integer (below 2^24 in magnitude) as an i64
IntToHost(k) ==
    LET m == IF k < 0 THEN -k ELSE k
    IN  HostInt(k < 0,
                [i \in 0..7 |-> IF i = 7 THEN m % 256
                                ELSE IF i = 6 THEN (m \div 256) % 256
                                ELSE IF i = 5 THEN (m \div 65536) % 256
                                ELSE 0])

\* ------------------------------------------------------------------------
\* Word<N, P>
\* ------------------------------------------------------------------------

Byte == 0..255

\* Word::new for N bytes
WordNew(n) == Arr([i \in 0..(n - 1) |-> 0])

\* Word::from_bytes; p is the type parameter P (sign forced positive)
from_bytes(bytes, p) == [bytes EXCEPT ![0] = IF p THEN POS ELSE bytes[0]]

\* Word::set_all
set_all(bytes, p) == [bytes EXCEPT ![0] = IF p THEN POS ELSE bytes[0]]

\* Word::is_positive
is_positive(w) == w[0] = POS

\* Word::get_sign
get_sign(w) == IF is_positive(w) THEN 1 ELSE -1

\* Word::flip_sign
flip_sign(w, p) == [w EXCEPT ![0] = IF ~p /\ is_positive(w) THEN NEG ELSE POS]

\* number of bytes of a word, sign byte included
WordLen(w) == Cardinality(DOMAIN w)

\* a conversion to i64 that drops the sign
to_i64_magnitude(w) ==
    LET n == WordLen(w)
        bytes == Arr([i \in 0..7 |-> IF 7 - i < n - 1 THEN w[(n - 1) - (7 - i)] ELSE 0])
    IN  HostInt(FALSE, bytes)

\* Word::to_i64 (.0): the magnitude bytes right-aligned in 8 bytes, times the sign
to_i64(w) ==
    LET n == WordLen(w)
        bytes == Arr([i \in 0..7 |-> IF 7 - i < n - 1 THEN w[(n - 1) - (7 - i)] ELSE 0])
    IN  HostInt(get_sign(w) = -1, bytes)

\* Word::to_i64 (.1): bytes past the eighth magnitude byte that are not zero
to_i64_overflow(w) ==
    WordLen(w) - 1 > 8 /\ \E i \in 8..(WordLen(w) - 1) : w[i] # 0

\* Word::from_i64 that never reports the bytes it left behind
from_i64_silent(v, n, p) ==
    [word |-> Arr([i \in 0..(n - 1) |->
                     IF i = 0 THEN (IF ~p /\ v.neg THEN NEG ELSE POS)
                     ELSE v.mag[7 - ((n - 1) - i)]]),
     overflow |-> FALSE]

\* Word::from_i64 for a word of n bytes: the word and the overflow flag
from_i64(v, n, p) ==
    LET bytes == v.mag
        overflow == n - 1 < 8 /\ \E i \in 0..(8 - (n - 1) - 1) : bytes[i] # 0
        word == Arr([i \in 0..(n - 1) |->
                        IF i = 0 THEN (IF ~p /\ v.neg THEN NEG ELSE POS)
                        ELSE bytes[7 - ((n - 1) - i)]])
    IN  [word |-> word, overflow |-> overflow]

\* the most negative i64
IsI64Min(v) == v.neg /\ v.mag[0] = 128 /\ \A i \in 1..7 : v.mag[i] = 0

\* a call of Word::from_i64 with any i64: value.abs() overflows for the most
\* negative i64, which panics when overflow checks are on and otherwise wraps
\* to the same value, whose big-endian bytes are those of its magnitude
from_i64_call(v, n, p, checks) ==
    IF IsI64Min(v) /\ checks
    THEN [panic |-> TRUE, word |-> Arr([i \in 0..(n - 1) |-> 0]), overflow |-> FALSE]
    ELSE The({[panic |-> FALSE, word |-> r.word, overflow |-> r.overflow] :
                 r \in {from_i64(v, n, p)}})

\* ToRangeInclusive::to_range_inclusive: F = 8 * L + R
to_range_inclusive(f) == [start |-> f \div 8, end |-> f % 8]

\* ToRangeInclusive::to_range_inclusive_signless
to_range_inclusive_signless(f) ==
    LET orig_range == to_range_inclusive(f)
        has_sign == orig_range.start = 0
        new_start == IF has_sign THEN orig_range.start + 1 ELSE orig_range.start
    IN  [start |-> new_start, end |-> orig_range.end, has_sign |-> has_sign]

\* Word::to_i64_ranged (.0) of a 6-byte word; slicing data[start..=end] panics
\* when end is past the word or start is past end + 1
to_i64_ranged(w, field) ==
    LET sign_included == field.start = 0
        new_start == IF sign_included THEN field.start + 1 ELSE field.start
        len == field.end - new_start + 1
    IN  IF field.end >= WordLen(w) \/ new_start > field.end + 1
        THEN [panic |-> TRUE, val |-> HostInt(FALSE, MagZero(8))]
        ELSE IF len = 0 THEN [panic |-> FALSE, val |-> HostInt(FALSE, MagZero(8))]
        ELSE LET sign == IF ~sign_included THEN 1 ELSE get_sign(w)
                 result_bytes == Arr([i \in 0..7 |->
                     IF 7 - i < len THEN w[field.end - (7 - i)] ELSE 0])
             IN  [panic |-> FALSE, val |-> HostInt(sign = -1, result_bytes)]

\* a load that leaves bytes start..=end of src where they are in the word
CopyRightInPlace(dst, src, start, end) ==
    Arr([i \in DOMAIN dst |-> IF i >= 1 /\ start <= i /\ i <= end THEN src[i] ELSE dst[i]])

\* the zip of (1..=5).rev() with field.rev() used by loads: bytes start..=end of
\* src land right-aligned in dst
CopyRight(dst, src, start, end) ==
    LET cnt == IF start > end THEN 0 ELSE end - start + 1
    IN  Arr([i \in DOMAIN dst |->
                IF i >= 1 /\ 5 - i < cnt THEN src[end - (5 - i)] ELSE dst[i]])

\* a store that takes bytes start..=end of src instead of its rightmost bytes
CopyFieldInPlace(dst, src, start, end) ==
    Arr([i \in DOMAIN dst |->
            IF i >= 1 /\ start <= i /\ i <= end THEN src[i] ELSE dst[i]])

\* the same zip used by stores: the rightmost bytes of src land in bytes
\* start..=end of dst
CopyField(dst, src, start, end) ==
    Arr([i \in DOMAIN dst |->
            IF i >= 1 /\ start <= i /\ i <= end /\ end - i < 5 THEN src[5 - (end - i)]
            ELSE dst[i]])

\* the loop body indexes the 6-byte cell at `end` first: out of bounds past 5
FieldPanics(start, end) == start <= end /\ end >= 6

\* ------------------------------------------------------------------------
\* Instruction
\* ------------------------------------------------------------------------

\* the largest opcode of enum Opcode (CmpX)
OPCODE_MAX == 63

\* Instruction::try_from(FullWord).  The address is computed before the
\* opcode is validated; sign * i16::from_be_bytes overflows for -1 * -32768,
\* which panics when overflow checks are on and wraps otherwise.
DecodeInstr(w, checks) ==
    LET sign == get_sign(w)
        raw == w[1] * 256 + w[2]
        be == IF raw > I16_MAX THEN raw - (U16_MAX + 1) ELSE raw
        ovf == sign = -1 /\ be = -(I16_MAX + 1)
        addr == IF ovf THEN be ELSE sign * be
    IN  IF ovf /\ checks THEN [kind |-> "panic", addr |-> 0, index |-> 0, field |-> 0, opcode |-> 0]
        ELSE IF w[5] > OPCODE_MAX
             THEN [kind |-> "illegal", addr |-> addr, index |-> w[3], field |-> w[4], opcode |-> w[5]]
        ELSE [kind |-> "ok", addr |-> addr, index |-> w[3], field |-> w[4], opcode |-> w[5]]

\* From<Instruction> for FullWord
EncodeInstr(addr, index, field, opcode) ==
    LET a == IF addr < 0 THEN -addr ELSE addr
    IN  [i \in 0..5 |->
            IF i = 0 THEN (IF addr < 0 THEN 1 ELSE 0)
            ELSE IF i = 1 THEN a \div 256
            ELSE IF i = 2 THEN a % 256
            ELSE IF i = 3 THEN index
            ELSE IF i = 4 THEN field
            ELSE opcode]

\* ------------------------------------------------------------------------
\* VM: helpers.  A machine state s is the record of the fields of struct VM
\* (r_a, r_x, r_in, r_j, comp, overflow, halted, pc, mem); a handler returns
\* the state it leaves and what it returns ("Ok", an ErrorCode, or "Panic").
\* ------------------------------------------------------------------------

\* the all-zero positive full word
ZeroWord == WordNew(6)

\* Mem as the cells that differ from the zero word; every other cell is zero
MemAt(mem, a) == IF a \in DOMAIN mem THEN mem[a] ELSE ZeroWord

\* writing cell a of Mem
MemPut(mem, a, w) ==
    IF w = ZeroWord THEN [b \in DOMAIN mem \ {a} |-> mem[b]]
    ELSE [b \in DOMAIN mem \cup {a} |-> IF b = a THEN w ELSE mem[b]]

Ret(s, res) == [s |-> s, res |-> res, calls |-> <<>>]

\* VM::halt that leaves the VM running
halt_keeps_running(s) == s

\* VM::halt
halt(s) == [s EXCEPT !.halted = TRUE]

\* VM::helper_get_eff_addr: Err(InvalidIndex), Err(InvalidAddress) or Ok(u16)
helper_get_eff_addr(s, addr, index) ==
    IF ~(index \in 0..6) THEN [err |-> "InvalidIndex", m |-> 0]
    ELSE LET reg_val == HostToInt(to_i64(s.r_in[index]))
             sum == reg_val + addr
         IN  IF sum < 0 \/ sum > U16_MAX THEN [err |-> "InvalidAddress", m |-> 0]
             ELSE [err |-> "Ok", m |-> sum]

\* `as i16`: the low 16 bits, two's complement
AsI16(v) == ((v + I16_MAX + 1) % (U16_MAX + 1)) - (I16_MAX + 1)

\* VM::helper_get_eff_addr_unchecked: r_in[index] is out of bounds past 6, and
\* the i16 addition panics on overflow when overflow checks are on
helper_get_eff_addr_unchecked(s, addr, index, checks) ==
    IF index > 6 THEN [panic |-> TRUE, m |-> 0]
    ELSE LET reg_val == HostToInt(to_i64(s.r_in[index]))
             sum == AsI16(reg_val) + addr
         IN  IF checks /\ (sum > I16_MAX \/ sum < -(I16_MAX + 1))
             THEN [panic |-> TRUE, m |-> 0]
             ELSE [panic |-> FALSE, m |-> AsI16(sum)]

\* helper_do_jump that saves rJ and stays
helper_do_jump_stays(s, location, save_r_j) ==
    IF save_r_j
    THEN [s EXCEPT !.r_j = [i \in 0..2 |->
             IF i = 0 THEN s.r_j[0]
             ELSE IF i = 1 THEN s.pc \div 256 ELSE s.pc % 256]]
    ELSE s

\* helper_do_jump that saves the target, not the return address
helper_do_jump_saves_target(s, location, save_r_j) ==
    LET saved == IF save_r_j
                 THEN [s EXCEPT !.r_j = [i \in 0..2 |->
                          IF i = 0 THEN s.r_j[0]
                          ELSE IF i = 1 THEN location \div 256 ELSE location % 256]]
                 ELSE s
    IN  [saved EXCEPT !.pc = location]

\* u16::to_be_bytes into r_j[1..=2]
helper_do_jump(s, location, save_r_j) ==
    LET saved == IF save_r_j
                 THEN [s EXCEPT !.r_j = [i \in 0..2 |->
                          IF i = 0 THEN s.r_j[0]
                          ELSE IF i = 1 THEN s.pc \div 256 ELSE s.pc % 256]]
                 ELSE s
    IN  [saved EXCEPT !.pc = location]

\* a device lookup that reports every missing device the same way
helper_get_io_device_one_error(devs, dev_id) ==
    IF dev_id >= NUM_DEVICES THEN "UnknownDevice"
    ELSE IF ~devs[dev_id].present THEN "UnknownDevice"
    ELSE "Ok"

\* VM::helper_get_io_device / helper_get_io_device_mut
helper_get_io_device(devs, dev_id) ==
    IF dev_id >= NUM_DEVICES THEN "InvalidField"
    ELSE IF ~devs[dev_id].present THEN "UnknownDevice"
    ELSE "Ok"

\* the operand cell of a memory-reading handler: the error of the address
\* computation, a panic of Mem::index past the last cell, or the cell
Operand(s, instr) ==
    LET ea == helper_get_eff_addr(s, instr.addr, instr.index)
    IN  IF ea.err # "Ok" THEN [res |-> ea.err, m |-> 0, cell |-> ZeroWord]
        ELSE IF ea.m >= MEM_SIZE THEN [res |-> "Panic", m |-> ea.m, cell |-> ZeroWord]
        ELSE [res |-> "Ok", m |-> ea.m, cell |-> MemAt(s.mem, ea.m)]

\* ------------------------------------------------------------------------
\* Opcodes (enum Opcode)
\* ------------------------------------------------------------------------

OP_NOP == 0
OP_ADD == 1
OP_SUB == 2
OP_MUL == 3
OP_DIV == 4
OP_SPECIAL == 5
OP_SHIFT == 6
OP_MOVE == 7
OP_LDA == 8
OP_LDX == 15
OP_LDAN == 16
OP_LDXN == 23
OP_STA == 24
OP_STX == 31
OP_STJ == 32
OP_STZ == 33
OP_JBUS == 34
OP_IOC == 35
OP_IN == 36
OP_OUT == 37
OP_JRED == 38
OP_JMP == 39
OP_JA == 40
OP_JX == 47
OP_MODIFYA == 48
OP_MODIFYX == 55
OP_CMPA == 56
OP_CMPX == 63

\* ------------------------------------------------------------------------
\* Handlers
\* ------------------------------------------------------------------------

\* NOP that clears the overflow toggle
handle_instr_nop_clears(s, instr) == Ret([s EXCEPT !.overflow = FALSE], "Ok")

\* VM::handle_instr_nop
handle_instr_nop(s, instr) == Ret(s, "Ok")

\* the register a full-word load fills: the word in field `sign_copy` form
LoadWord(cell, f, negate) ==
    LET field == to_range_inclusive_signless(f)
        copied == CopyRight(ZeroWord, cell, field.start, field.end)
        signed == IF field.has_sign THEN [copied EXCEPT ![0] = cell[0]] ELSE copied
    IN  IF field.has_sign /\ negate THEN flip_sign(signed, FALSE) ELSE signed

\* VM::handle_instr_load_6b and VM::handle_instr_load_neg_6b
handle_instr_load_6b(s, instr, negate) ==
    LET field == to_range_inclusive_signless(instr.field)
        op == Operand(s, instr)
        to_a == instr.opcode \in {OP_LDA, OP_LDAN}
        zeroed == IF to_a THEN [s EXCEPT !.r_a = ZeroWord] ELSE [s EXCEPT !.r_x = ZeroWord]
        word == LoadWord(op.cell, instr.field, negate)
    IN  IF op.res # "Ok" THEN Ret(s, op.res)
        ELSE IF FieldPanics(field.start, field.end) THEN Ret(zeroed, "Panic")
        ELSE IF to_a THEN Ret([s EXCEPT !.r_a = word], "Ok")
        ELSE Ret([s EXCEPT !.r_x = word], "Ok")

\* a load that fills the index register one slot below (LD1 fills rI0)
handle_instr_load_3b_slot_below(s, instr, negate) ==
    LET field == to_range_inclusive_signless(instr.field)
        op == Operand(s, instr)
        n == IF negate THEN instr.opcode - OP_LDAN ELSE instr.opcode - OP_LDA
        temp == LoadWord(op.cell, instr.field, negate)
        reg == [i \in 0..2 |-> IF i = 0 THEN temp[0] ELSE IF i = 1 THEN temp[4] ELSE temp[5]]
    IN  IF op.res # "Ok" THEN Ret(s, op.res)
        ELSE IF FieldPanics(field.start, field.end) THEN Ret(s, "Panic")
        ELSE Ret([s EXCEPT !.r_in[n - 1] = reg], "Ok")

\* VM::handle_instr_load_3b and VM::handle_instr_load_neg_3b: the register
\* keeps the sign and bytes 4..5 of the temporary full word
handle_instr_load_3b(s, instr, negate) ==
    LET field == to_range_inclusive_signless(instr.field)
        op == Operand(s, instr)
        n == IF negate THEN instr.opcode - OP_LDAN ELSE instr.opcode - OP_LDA
        temp == LoadWord(op.cell, instr.field, negate)
        reg == [i \in 0..2 |-> IF i = 0 THEN temp[0] ELSE IF i = 1 THEN temp[4] ELSE temp[5]]
    IN  IF op.res # "Ok" THEN Ret(s, op.res)
        ELSE IF FieldPanics(field.start, field.end) THEN Ret(s, "Panic")
        ELSE Ret([s EXCEPT !.r_in[n] = reg], "Ok")

\* the cell a store leaves: the rightmost bytes of the (padded) register in
\* the field, and its sign when the field covers byte 0
StoreWord(cell, reg, f) ==
    LET field == to_range_inclusive_signless(f)
        copied == CopyField(cell, reg, field.start, field.end)
    IN  IF field.has_sign THEN [copied EXCEPT ![0] = reg[0]] ELSE copied

\* a padding to the right: [reg[0], reg[1], reg[2], 0, 0, 0]
PadHalfRight(reg) ==
    [i \in 0..5 |-> IF i <= 2 THEN reg[i] ELSE 0]

\* [reg[0], 0, 0, 0, reg[1], reg[2]]
PadHalf(reg) ==
    [i \in 0..5 |-> IF i = 0 THEN reg[0] ELSE IF i = 4 THEN reg[1]
                    ELSE IF i = 5 THEN reg[2] ELSE 0]

\* VM::handle_instr_store_6b, VM::handle_instr_store_3b, VM::handle_instr_store_j
handle_instr_store(s, instr) ==
    LET field == to_range_inclusive_signless(instr.field)
        ea == helper_get_eff_addr(s, instr.addr, instr.index)
        reg == IF instr.opcode = OP_STA THEN s.r_a
               ELSE IF instr.opcode = OP_STX THEN s.r_x
               ELSE IF instr.opcode = OP_STJ THEN PadHalf(s.r_j)
               ELSE PadHalf(s.r_in[instr.opcode - OP_STA])
    IN  IF ea.err # "Ok" THEN Ret(s, ea.err)
        ELSE IF ea.m >= MEM_SIZE THEN Ret(s, "Panic")
        ELSE IF FieldPanics(field.start, field.end) THEN Ret(s, "Panic")
        ELSE Ret([s EXCEPT !.mem = MemPut(s.mem, ea.m,
                      StoreWord(MemAt(s.mem, ea.m), reg, instr.field))], "Ok")

\* STZ that clears the whole cell whatever the field
handle_instr_store_zero_whole(s, instr) ==
    LET ea == helper_get_eff_addr(s, instr.addr, instr.index)
    IN  IF ea.err # "Ok" THEN Ret(s, ea.err)
        ELSE IF ea.m >= MEM_SIZE THEN Ret(s, "Panic")
        ELSE Ret([s EXCEPT !.mem = MemPut(s.mem, ea.m, ZeroWord)], "Ok")

\* VM::handle_instr_store_zero: bytes L..=R are zeroed in ascending order and
\* indexing byte 6 panics after bytes L..5 were written
handle_instr_store_zero(s, instr) ==
    LET ea == helper_get_eff_addr(s, instr.addr, instr.index)
        field == to_range_inclusive(instr.field)
        cell == MemAt(s.mem, ea.m)
        zeroed == [i \in 0..5 |-> IF field.start <= i /\ i <= field.end THEN 0 ELSE cell[i]]
        after == [s EXCEPT !.mem = MemPut(s.mem, ea.m, zeroed)]
    IN  IF ea.err # "Ok" THEN Ret(s, ea.err)
        ELSE IF ea.m >= MEM_SIZE THEN Ret(s, "Panic")
        ELSE IF field.start <= field.end /\ field.end >= 6 THEN Ret(after, "Panic")
        ELSE Ret(after, "Ok")

\* "Jump" or "Stay" for a condition
Taken(b) == IF b THEN "Jump" ELSE "Stay"

\* the jump condition of JMP and its variants; "InvalidField" past F = 11
JmpCondition(s, f) ==
    CASE f \in {0, 1} -> "Jump"
      [] f = 2 -> Taken(s.overflow)
      [] f = 3 -> Taken(~s.overflow)
      [] f = 4 -> Taken(s.comp = "Less")
      [] f = 5 -> Taken(s.comp = "Equal")
      [] f = 6 -> Taken(s.comp = "Greater")
      [] f = 7 -> Taken(s.comp # "Less")
      [] f = 8 -> Taken(s.comp # "Equal")
      [] f = 9 -> Taken(s.comp # "Greater")
      [] f = 10 -> Taken(s.comp # "Unordered")
      [] f = 11 -> Taken(s.comp = "Unordered")
      [] OTHER -> "InvalidField"

\* JOV and JNOV leave the overflow toggle alone
JmpKeepOverflow(s, f) == s

\* JOV and JNOV clear the overflow toggle
JmpClearOverflow(s, f) == IF f = 2 \/ f = 3 THEN [s EXCEPT !.overflow = FALSE] ELSE s

\* VM::handle_instr_jmp
handle_instr_jmp(s, instr) ==
    LET ea == helper_get_eff_addr(s, instr.addr, instr.index)
        should_jump == JmpCondition(s, instr.field)
        cleared == JmpClearOverflow(s, instr.field)
    IN  IF ea.err # "Ok" THEN Ret(s, ea.err)
        ELSE IF should_jump = "InvalidField" THEN Ret(s, "InvalidField")
        ELSE IF should_jump = "Jump"
             THEN Ret(helper_do_jump(cleared, ea.m, instr.field # 1), "Ok")
        ELSE Ret(cleared, "Ok")

\* a jump condition that takes the sign from the sign byte alone, so that -0
\* is negative
RegJmpConditionSignByte(reg, f, wide) ==
    LET reg_value == to_i64(reg)
        reg_value_sign == IF reg[0] # POS THEN -1 ELSE HostSignum(reg_value)
        is_odd == reg_value.mag[7] % 2 # 0
    IN  CASE f = 0 -> Taken(reg_value_sign = -1)
          [] f = 1 -> Taken(reg_value_sign = 0)
          [] f = 2 -> Taken(reg_value_sign = 1)
          [] f = 3 -> Taken(reg_value_sign # -1)
          [] f = 4 -> Taken(reg_value_sign # 0)
          [] f = 5 -> Taken(reg_value_sign # 1)
          [] f = 6 /\ wide -> Taken(~is_odd)
          [] f = 7 /\ wide -> Taken(is_odd)
          [] OTHER -> "InvalidField"

\* the jump condition of the register jumps; F = 6, 7 (even, odd) only for JA, JX
RegJmpCondition(reg, f, wide) ==
    LET reg_value == to_i64(reg)
        reg_value_sign == HostSignum(reg_value)
        is_odd == reg_value.mag[7] % 2 # 0
    IN  CASE f = 0 -> Taken(reg_value_sign = -1)
          [] f = 1 -> Taken(reg_value_sign = 0)
          [] f = 2 -> Taken(reg_value_sign = 1)
          [] f = 3 -> Taken(reg_value_sign # -1)
          [] f = 4 -> Taken(reg_value_sign # 0)
          [] f = 5 -> Taken(reg_value_sign # 1)
          [] f = 6 /\ wide -> Taken(~is_odd)
          [] f = 7 /\ wide -> Taken(is_odd)
          [] OTHER -> "InvalidField"

\* VM::handle_instr_jmp_reg_6b and VM::handle_instr_jmp_reg_3b
handle_instr_jmp_reg(s, instr) ==
    LET ea == helper_get_eff_addr(s, instr.addr, instr.index)
        wide == instr.opcode \in {OP_JA, OP_JX}
        reg == IF instr.opcode = OP_JA THEN s.r_a
               ELSE IF instr.opcode = OP_JX THEN s.r_x
               ELSE s.r_in[instr.opcode - OP_JA]
        should_jump == RegJmpCondition(reg, instr.field, wide)
    IN  IF ea.err # "Ok" THEN Ret(s, ea.err)
        ELSE IF should_jump = "InvalidField" THEN Ret(s, "InvalidField")
        ELSE IF should_jump = "Jump" THEN Ret(helper_do_jump(s, ea.m, TRUE), "Ok")
        ELSE Ret(s, "Ok")

\* FullWord::from_i64 / HalfWord::from_i64 applied to reg.to_i64().0 + offset,
\* stored into the register; the overflow toggle is only ever set
ModifyReg(reg, n, f, addr) ==
    LET offset == IF f = 0 THEN IntToHost(addr) ELSE IntToHost(-addr)
        inc == from_i64(HostAdd(to_i64(reg), offset), n, FALSE)
        ent == from_i64(IntToHost(addr), n, FALSE).word
    IN  IF f = 0 \/ f = 1 THEN inc
        ELSE [word |-> IF f = 3 THEN flip_sign(ent, FALSE) ELSE ent, overflow |-> FALSE]

\* VM::handle_instr_modify_6b: the immediate goes through the checked
\* helper_get_eff_addr, so it must fit u16
handle_instr_modify_6b(s, instr) ==
    LET ea == helper_get_eff_addr(s, instr.addr, instr.index)
        to_a == instr.opcode = OP_MODIFYA
        new == ModifyReg(IF to_a THEN s.r_a ELSE s.r_x, 6, instr.field, ea.m)
        set == IF to_a THEN [s EXCEPT !.r_a = new.word] ELSE [s EXCEPT !.r_x = new.word]
    IN  IF ea.err # "Ok" THEN Ret(s, ea.err)
        ELSE IF instr.field > 3 THEN Ret(s, "InvalidField")
        ELSE Ret([set EXCEPT !.overflow = s.overflow \/ new.overflow], "Ok")

\* VM::handle_instr_modify_3b: the immediate comes from
\* helper_get_eff_addr_unchecked
handle_instr_modify_3b(s, instr, checks) ==
    LET ea == helper_get_eff_addr_unchecked(s, instr.addr, instr.index, checks)
        n == instr.opcode - OP_MODIFYA
        new == ModifyReg(s.r_in[n], 3, instr.field, ea.m)
    IN  IF ea.panic THEN Ret(s, "Panic")
        ELSE IF instr.field > 3 THEN Ret(s, "InvalidField")
        ELSE Ret([s EXCEPT !.r_in[n] = new.word,
                           !.overflow = s.overflow \/ new.overflow], "Ok")

\* the register a binary32 operation leaves: [sign, 0, b0, b1, b2, b3].  The
\* arithmetic of binary32 is not computed here: its result fl (sign, bytes,
\* finiteness) is an input of the step.
FloatWord(fl) ==
    [i \in 0..5 |-> IF i = 0 THEN fl.sign ELSE IF i = 1 THEN 0 ELSE fl.bytes[i - 2]]

\* VM::handle_instr_add_sub
handle_instr_add_sub(s, instr, env) ==
    LET op == Operand(s, instr)
        orig_value == to_i64(s.r_a)
        target == to_i64_ranged(op.cell, to_range_inclusive(instr.field))
        new_value == IF instr.opcode = OP_ADD THEN HostAdd(orig_value, target.val)
                     ELSE HostSub(orig_value, target.val)
        new == from_i64(new_value, 6, FALSE)
    IN  IF op.res # "Ok" THEN Ret(s, op.res)
        ELSE IF instr.field = 7
             THEN Ret([s EXCEPT !.r_a = FloatWord(env.f32),
                                !.overflow = s.overflow \/ ~env.f32.finite], "Ok")
        ELSE IF target.panic THEN Ret(s, "Panic")
        ELSE Ret([s EXCEPT !.r_a = new.word,
                           !.overflow = s.overflow \/ new.overflow], "Ok")

\* a comparison of the magnitudes alone
HostCmpMagnitude(v, w) ==
    IF v.mag = w.mag THEN "Equal"
    ELSE IF MagLess(v.mag, w.mag) THEN "Less" ELSE "Greater"

\* i64::cmp
HostCmp(v, w) ==
    IF v = w THEN "Equal"
    ELSE IF v.neg /\ ~w.neg THEN "Less"
    ELSE IF ~v.neg /\ w.neg THEN "Greater"
    ELSE IF ~v.neg THEN (IF MagLess(v.mag, w.mag) THEN "Less" ELSE "Greater")
    ELSE (IF MagLess(w.mag, v.mag) THEN "Less" ELSE "Greater")

\* VM::handle_instr_cmp_6b
handle_instr_cmp_6b(s, instr, env) ==
    LET op == Operand(s, instr)
        reg == IF instr.opcode = OP_CMPA THEN s.r_a ELSE s.r_x
        target == to_i64_ranged(op.cell, to_range_inclusive(instr.field))
        reg_value == to_i64_ranged(reg, to_range_inclusive(instr.field))
    IN  IF op.res # "Ok" THEN Ret(s, op.res)
        ELSE IF instr.field = 7 THEN Ret([s EXCEPT !.comp = env.fcomp], "Ok")
        ELSE IF target.panic \/ reg_value.panic THEN Ret(s, "Panic")
        ELSE Ret([s EXCEPT !.comp = HostCmp(reg_value.val, target.val)], "Ok")

\* VM::handle_instr_cmp_3b
handle_instr_cmp_3b(s, instr) ==
    LET op == Operand(s, instr)
        target == to_i64_ranged(op.cell, to_range_inclusive(instr.field))
        padded_reg == from_bytes(PadHalf(s.r_in[instr.opcode - OP_CMPA]), FALSE)
        reg_value == to_i64_ranged(padded_reg, to_range_inclusive(instr.field))
        c == HostCmp(reg_value.val, target.val)
    IN  IF op.res # "Ok" THEN Ret(s, op.res)
        ELSE IF target.panic \/ reg_value.panic THEN Ret(s, "Panic")
        ELSE Ret([s EXCEPT !.comp =
                     IF c = "Equal" \/ (MagIsZero(reg_value.val.mag) /\ MagIsZero(target.val.mag))
                     THEN "Equal"
                     ELSE IF c = "Greater" THEN "Greater" ELSE "Less"], "Ok")

\* carry into byte i when computing m * k + d for small k and d
RECURSIVE MulSmallCarry(_, _, _, _)
MulSmallCarry(m, k, d, i) ==
    IF i >= MagLen(m) - 1 THEN d
    ELSE (m[i + 1] * k + MulSmallCarry(m, k, d, i + 1)) \div 256

\* m * k + d, truncated to the length of m
MagMulSmallAdd(m, k, d) ==
    Arr([i \in DOMAIN m |-> (m[i] * k + MulSmallCarry(m, k, d, i)) % 256])

\* remainder of the bytes 0..i of m divided by small k
RECURSIVE DivSmallRem(_, _, _)
DivSmallRem(m, k, i) ==
    IF i < 0 THEN 0 ELSE (DivSmallRem(m, k, i - 1) * 256 + m[i]) % k

\* m / k and m % k for small k
MagDivSmall(m, k) ==
    Arr([i \in DOMAIN m |-> (DivSmallRem(m, k, i - 1) * 256 + m[i]) \div k])

MagModSmall(m, k) == DivSmallRem(m, k, MagLen(m) - 1)

\* NUM: result = result * 10 + byte % 10 over the first n of the ten bytes
RECURSIVE NumAcc(_, _)
NumAcc(bytes, n) ==
    IF n = 0 THEN MagZero(8)
    ELSE MagMulSmallAdd(NumAcc(bytes, n - 1), 10, bytes[n] % 10)

\* the ten magnitude bytes r_a[1..=5] ++ r_x[1..=5], numbered 1..10
TenBytes(s) == Arr([i \in 1..10 |-> IF i <= 5 THEN s.r_a[i] ELSE s.r_x[i - 5]])

\* CHAR: source after j divisions by 10
RECURSIVE CharSource(_, _)
CharSource(m, j) == IF j = 0 THEN m ELSE MagDivSmall(CharSource(m, j - 1), 10)

\* CHAR writing the least significant digit first
CharDigitReversed(m, reg_i) == MagModSmall(CharSource(m, reg_i), 10) + 30

\* CHAR: the code written at position reg_i (0..9) of r_a[1..=5] ++ r_x[1..=5]
CharDigit(m, reg_i) == MagModSmall(CharSource(m, 9 - reg_i), 10) + 30

\* a bitwise operation that computes OR where XOR is asked for
RECURSIVE BitOpOrForXor(_, _, _, _)
BitOpOrForXor(f, a, b, n) ==
    IF n = 0 THEN 0
    ELSE LET x == a % 2
             y == b % 2
             r == IF f = 10 THEN x * y ELSE (IF x + y > 0 THEN 1 ELSE 0)
         IN  r + 2 * BitOpOrForXor(f, a \div 2, b \div 2, n - 1)

\* a bitwise operation on two bytes, bit by bit
RECURSIVE BitOp(_, _, _, _)
BitOp(f, a, b, n) ==
    IF n = 0 THEN 0
    ELSE LET x == a % 2
             y == b % 2
             r == IF f = 10 THEN x * y
                  ELSE IF f = 11 THEN (IF x + y > 0 THEN 1 ELSE 0)
                  ELSE (x + y) % 2
         IN  r + 2 * BitOp(f, a \div 2, b \div 2, n - 1)

\* VM::handle_instr_special
handle_instr_special(s, instr, env) ==
    LET f == instr.field
        num == from_i64(HostInt(FALSE, NumAcc(TenBytes(s), 10)), 6, FALSE).word
        source == to_i64(s.r_a).mag
        fl == env.f32
        op == Operand(s, instr)
    IN  IF f = 0
        THEN Ret([s EXCEPT !.r_a = [i \in 0..5 |-> IF i = 0 THEN s.r_a[0] ELSE num[i]]], "Ok")
        ELSE IF f = 1
        THEN Ret([s EXCEPT
                    !.r_a = [i \in 0..5 |-> IF i = 0 THEN s.r_a[0] ELSE CharDigit(source, i - 1)],
                    !.r_x = [i \in 0..5 |-> IF i = 0 THEN s.r_x[0] ELSE CharDigit(source, i + 4)]],
                 "Ok")
        ELSE IF f = 2 THEN Ret([s EXCEPT !.halted = TRUE], "Ok")
        ELSE IF f \in 3..5
        THEN Ret([s EXCEPT
                    !.r_a = [i \in 0..5 |->
                        IF i = 0 THEN fl.sign
                        ELSE IF i >= (IF f = 3 THEN 2 ELSE IF f = 4 THEN 4 ELSE 5)
                        THEN fl.bytes[i - 2]
                        ELSE 0],
                    !.overflow = s.overflow \/ ~fl.finite], "Ok")
        ELSE IF f \in 6..8
        THEN Ret([s EXCEPT !.r_a = [FloatWord(fl) EXCEPT ![0] = POS]], "Ok")
        ELSE IF f = 9
        THEN Ret([s EXCEPT !.r_a = [i \in 0..5 |->
                    IF i = 0 THEN flip_sign(s.r_a, FALSE)[0] ELSE 255 - s.r_a[i]]], "Ok")
        ELSE IF f \in 10..12
        THEN IF op.res # "Ok" THEN Ret(s, op.res)
             ELSE Ret([s EXCEPT !.r_a = [i \in 0..5 |-> BitOp(f, s.r_a[i], op.cell[i], 8)]], "Ok")
        ELSE Ret(s, "InvalidField")

\* a handler's return after it called a device method that answered ans
Call(s, res, method, arg, len, ans) ==
    [s |-> s, res |-> res,
     calls |-> <<[method |-> method, arg |-> arg, len |-> len, ans |-> ans]>>]

\* a device jump taken when the device answers false
handle_instr_jbus_jred_inverted(s, instr, devs, env) ==
    LET dev == helper_get_io_device(devs, instr.field)
        method == IF instr.opcode = OP_JBUS THEN "is_busy" ELSE "is_ready"
        answer == IF instr.opcode = OP_JBUS THEN env.busy ELSE env.ready
        ea == helper_get_eff_addr(s, instr.addr, instr.index)
    IN  IF dev # "Ok" THEN Ret(s, dev)
        ELSE IF answer = "Err" THEN Call(s, "IOError", method, 0, 0, answer)
        ELSE IF answer = "Yes" THEN Call(s, "Ok", method, 0, 0, answer)
        ELSE IF ea.err # "Ok" THEN Call(s, ea.err, method, 0, 0, answer)
        ELSE Call(helper_do_jump(s, ea.m, TRUE), "Ok", method, 0, 0, answer)

\* VM::handle_instr_jbus_jred: the device is asked before the address is
\* computed, and the address only when the jump is taken
handle_instr_jbus_jred(s, instr, devs, env) ==
    LET dev == helper_get_io_device(devs, instr.field)
        method == IF instr.opcode = OP_JBUS THEN "is_busy" ELSE "is_ready"
        answer == IF instr.opcode = OP_JBUS THEN env.busy ELSE env.ready
        ea == helper_get_eff_addr(s, instr.addr, instr.index)
    IN  IF dev # "Ok" THEN Ret(s, dev)
        ELSE IF answer = "Err" THEN Call(s, "IOError", method, 0, 0, answer)
        ELSE IF answer = "No" THEN Call(s, "Ok", method, 0, 0, answer)
        ELSE IF ea.err # "Ok" THEN Call(s, ea.err, method, 0, 0, answer)
        ELSE Call(helper_do_jump(s, ea.m, TRUE), "Ok", method, 0, 0, answer)

\* VM::handle_instr_ioc
handle_instr_ioc(s, instr, devs, env, checks) ==
    LET command == helper_get_eff_addr_unchecked(s, instr.addr, instr.index, checks)
        dev == helper_get_io_device(devs, instr.field)
    IN  IF command.panic THEN Ret(s, "Panic")
        ELSE IF dev # "Ok" THEN Ret(s, dev)
        ELSE Call(s, IF env.ctl_ok THEN "Ok" ELSE "IOError", "control", command.m, 0,
                  IF env.ctl_ok THEN "Ok" ELSE "Err")

\* the cells a device's read fills: the device writes env.word into each word
\* of the block it was handed when env.wrote
RECURSIVE ReadBlock(_, _, _, _)
ReadBlock(mem, start, n, w) ==
    IF n = 0 THEN mem ELSE ReadBlock(MemPut(mem, start + n - 1, w), start, n - 1, w)

\* VM::handle_instr_in_out: addr_start + dev_blk_size as u16 is a u16 addition
handle_instr_in_out(s, instr, devs, env, checks) ==
    LET ea == helper_get_eff_addr(s, instr.addr, instr.index)
        dev == helper_get_io_device(devs, instr.field)
        dev_blk_size == devs[instr.field].block_size
        sum == ea.m + (dev_blk_size % (U16_MAX + 1))
        addr_end == sum % (U16_MAX + 1)
        method == IF instr.opcode = OP_IN THEN "read" ELSE "write"
        after == IF instr.opcode = OP_IN /\ env.wrote
                 THEN [s EXCEPT !.mem = ReadBlock(s.mem, ea.m, addr_end - ea.m, env.word)]
                 ELSE s
    IN  IF ea.err # "Ok" THEN Ret(s, ea.err)
        ELSE IF ea.m >= MEM_SIZE THEN Ret(s, "InvalidAddress")
        ELSE IF dev # "Ok" THEN Ret(s, dev)
        ELSE IF sum > U16_MAX /\ checks THEN Ret(s, "Panic")
        ELSE IF addr_end >= MEM_SIZE THEN Ret(s, "InvalidAddress")
        ELSE IF addr_end < ea.m THEN Ret(s, "Panic")
        ELSE Call(after, IF env.io_ok THEN "Ok" ELSE "IOError",
                  method, ea.m, addr_end - ea.m, IF env.io_ok THEN "Ok" ELSE "Err")

\* bit j (0 = least significant) of a big-endian magnitude; 0 outside it
BitAt(m, j) ==
    IF j < 0 \/ j >= 8 * MagLen(m) THEN 0
    ELSE (m[MagLen(m) - 1 - (j \div 8)] \div (2 ^ (j % 8))) % 2

\* byte i of m with every bit moved up by k positions (down for negative k)
RECURSIVE ShiftedByte(_, _, _, _)
ShiftedByte(m, i, k, b) ==
    IF b > 7 THEN 0
    ELSE BitAt(m, 8 * (MagLen(m) - 1 - i) + b - k) * (2 ^ b) + ShiftedByte(m, i, k, b + 1)

\* m << k and m >> k within the width of m
MagShl(m, k) == Arr([i \in DOMAIN m |-> ShiftedByte(m, i, k, 0)])

MagShr(m, k) == Arr([i \in DOMAIN m |-> ShiftedByte(m, i, -k, 0)])

\* i64::to_be_bytes read back as u64: two's complement
AsU64(v) == IF v.neg THEN MagSub(MagZero(8), v.mag) ELSE v.mag

\* the amount a shift instruction shifts by: count * 8 is a u16 product, and a
\* shift by the width or more panics when overflow checks are on and is taken
\* modulo the width otherwise
ShiftAmount(count, scale, width, checks) ==
    LET prod == count * scale
    IN  IF prod > U16_MAX /\ checks THEN [panic |-> TRUE, by |-> 0]
        ELSE LET by == prod % (U16_MAX + 1)
             IN  IF by >= width /\ checks THEN [panic |-> TRUE, by |-> 0]
                 ELSE [panic |-> FALSE, by |-> by % width]

\* VM::handle_instr_shift with SRC taking the offset of SLC
handle_instr_shift_src_as_slc(s, instr, checks) ==
    LET ea == helper_get_eff_addr(s, instr.addr, instr.index)
        f == instr.field
        count == ea.m
        \* SLA, SRA
        orig64 == AsU64(to_i64(s.r_a))
        by64 == ShiftAmount(count, 8, 64, checks)
        shifted64 == IF f = 0 THEN MagShl(orig64, by64.by) ELSE MagShr(orig64, by64.by)
        \* SLAX, SRAX, SLB, SRB
        orig128 == Arr([i \in 0..15 |-> IF i < 6 THEN 0 ELSE TenBytes(s)[i - 5]])
        by128 == ShiftAmount(count, IF f \in {2, 3} THEN 8 ELSE 1, 128, checks)
        shifted128 == IF f \in {2, 6} THEN MagShl(orig128, by128.by)
                      ELSE MagShr(orig128, by128.by)
        \* SLC, SRC
        offset == count % 10
        cycled == Arr([i \in 1..10 |-> TenBytes(s)[((i - 1 + offset) % 10) + 1]])
    IN  IF ea.err # "Ok" THEN Ret(s, ea.err)
        ELSE IF f \in {0, 1}
        THEN IF by64.panic THEN Ret(s, "Panic")
             ELSE Ret([s EXCEPT !.r_a = [i \in 0..5 |->
                          IF i = 0 THEN s.r_a[0] ELSE shifted64[i + 2]]], "Ok")
        ELSE IF f \in {2, 3, 6, 7}
        THEN IF by128.panic THEN Ret(s, "Panic")
             ELSE Ret([s EXCEPT
                          !.r_a = [i \in 0..5 |-> IF i = 0 THEN s.r_a[0] ELSE shifted128[i + 5]],
                          !.r_x = [i \in 0..5 |-> IF i = 0 THEN s.r_x[0] ELSE shifted128[i + 10]]],
                      "Ok")
        ELSE IF f \in {4, 5}
        THEN Ret([s EXCEPT
                     !.r_a = [i \in 0..5 |-> IF i = 0 THEN s.r_a[0] ELSE cycled[i]],
                     !.r_x = [i \in 0..5 |-> IF i = 0 THEN s.r_x[0] ELSE cycled[i + 5]]], "Ok")
        ELSE Ret(s, "InvalidField")

\* VM::handle_instr_shift
handle_instr_shift(s, instr, checks) ==
    LET ea == helper_get_eff_addr(s, instr.addr, instr.index)
        f == instr.field
        count == ea.m
        \* SLA, SRA
        orig64 == AsU64(to_i64(s.r_a))
        by64 == ShiftAmount(count, 8, 64, checks)
        shifted64 == IF f = 0 THEN MagShl(orig64, by64.by) ELSE MagShr(orig64, by64.by)
        \* SLAX, SRAX, SLB, SRB
        orig128 == Arr([i \in 0..15 |-> IF i < 6 THEN 0 ELSE TenBytes(s)[i - 5]])
        by128 == ShiftAmount(count, IF f \in {2, 3} THEN 8 ELSE 1, 128, checks)
        shifted128 == IF f \in {2, 6} THEN MagShl(orig128, by128.by)
                      ELSE MagShr(orig128, by128.by)
        \* SLC, SRC
        offset == IF f = 4 THEN count % 10 ELSE 10 - (count % 10)
        cycled == Arr([i \in 1..10 |-> TenBytes(s)[((i - 1 + offset) % 10) + 1]])
    IN  IF ea.err # "Ok" THEN Ret(s, ea.err)
        ELSE IF f \in {0, 1}
        THEN IF by64.panic THEN Ret(s, "Panic")
             ELSE Ret([s EXCEPT !.r_a = [i \in 0..5 |->
                          IF i = 0 THEN s.r_a[0] ELSE shifted64[i + 2]]], "Ok")
        ELSE IF f \in {2, 3, 6, 7}
        THEN IF by128.panic THEN Ret(s, "Panic")
             ELSE Ret([s EXCEPT
                          !.r_a = [i \in 0..5 |-> IF i = 0 THEN s.r_a[0] ELSE shifted128[i + 5]],
                          !.r_x = [i \in 0..5 |-> IF i = 0 THEN s.r_x[0] ELSE shifted128[i + 10]]],
                      "Ok")
        ELSE IF f \in {4, 5}
        THEN Ret([s EXCEPT
                     !.r_a = [i \in 0..5 |-> IF i = 0 THEN s.r_a[0] ELSE cycled[i]],
                     !.r_x = [i \in 0..5 |-> IF i = 0 THEN s.r_x[0] ELSE cycled[i + 5]]], "Ok")
        ELSE Ret(s, "InvalidField")

\* the word-by-word copy of MOVE from word i on; Mem::index panics past the
\* last cell (which happens before from_addr + i could overflow u16), leaving
\* the words already copied in place
RECURSIVE MoveLoop(_, _, _, _, _)
MoveLoop(mem, from_addr, to_addr, i, num_words) ==
    IF i >= num_words THEN [mem |-> mem, panic |-> FALSE]
    ELSE IF from_addr + i >= MEM_SIZE \/ to_addr + i >= MEM_SIZE
         THEN [mem |-> mem, panic |-> TRUE]
    ELSE MoveLoop(MemPut(mem, to_addr + i, MemAt(mem, from_addr + i)),
                  from_addr, to_addr, i + 1, num_words)

\* VM::handle_instr_move
handle_instr_move(s, instr) ==
    LET ea == helper_get_eff_addr(s, instr.addr, instr.index)
        to_addr == s.r_in[1][1] * 256 + s.r_in[1][2]
        num_words == instr.field
        moved == MoveLoop(s.mem, ea.m, to_addr, 0, num_words)
        new == from_i64(HostAdd(to_i64(s.r_in[1]), IntToHost(num_words)), 3, FALSE)
    IN  IF ea.err # "Ok" THEN Ret(s, ea.err)
        ELSE IF moved.panic THEN Ret([s EXCEPT !.mem = moved.mem], "Panic")
        ELSE Ret([s EXCEPT !.mem = moved.mem,
                           !.r_in[1] = new.word,
                           !.overflow = s.overflow \/ new.overflow], "Ok")

\* a magnitude widened to 16 bytes (i128)
Widen(m) ==
    LET n == MagLen(m)
    IN  Arr([i \in 0..15 |-> IF i < 16 - n THEN 0 ELSE m[i - (16 - n)]])

\* m * 256 within the width of m
MagShlByte(m) == Arr([i \in DOMAIN m |-> IF i = MagLen(m) - 1 THEN 0 ELSE m[i + 1]])

\* a * b over 16 bytes, byte by byte of b (most significant first)
RECURSIVE MagMulFrom(_, _, _)
MagMulFrom(a, b, j) ==
    IF j < 0 THEN MagZero(16)
    ELSE MagAdd(MagShlByte(MagMulFrom(a, b, j - 1)), MagMulSmallAdd(a, b[j], 0))

\* a product that only uses the least significant byte of b
MagMulLowByte(a, b) == MagMulSmallAdd(Widen(a), b[MagLen(b) - 1], 0)

\* i128 multiplication of two i64 magnitudes
MagMul(a, b) == MagMulFrom(Widen(a), b, MagLen(b) - 1)

\* VM::handle_instr_mul
handle_instr_mul(s, instr, env) ==
    LET op == Operand(s, instr)
        orig_value == to_i64(s.r_a)
        target == to_i64_ranged(op.cell, to_range_inclusive(instr.field))
        new_val_bytes == MagMul(orig_value.mag, target.val.mag)
        negative == ~MagIsZero(new_val_bytes) /\ orig_value.neg # target.val.neg
        new_sign == IF negative THEN NEG ELSE POS
        overflow == \E i \in 0..5 : new_val_bytes[i] # 0
    IN  IF op.res # "Ok" THEN Ret(s, op.res)
        ELSE IF instr.field = 7
             THEN Ret([s EXCEPT !.r_a = FloatWord(env.f32),
                                !.overflow = s.overflow \/ ~env.f32.finite], "Ok")
        ELSE IF target.panic THEN Ret(s, "Panic")
        ELSE Ret([s EXCEPT
                    !.r_a = [i \in 0..5 |-> IF i = 0 THEN new_sign ELSE new_val_bytes[i + 5]],
                    !.r_x = [i \in 0..5 |-> IF i = 0 THEN new_sign ELSE new_val_bytes[i + 10]],
                    !.overflow = s.overflow \/ overflow], "Ok")

\* 2 * m + bit, truncated to the length of m
MagDouble(m, bit) ==
    Arr([i \in DOMAIN m |->
            (2 * m[i] + (IF i + 1 \in DOMAIN m THEN m[i + 1] \div 128 ELSE bit)) % 256])

\* one step of the long division of n by d # 0, for bit j of n: acc holds the
\* quotient and remainder of the bits above j
DivStep(n, d, j, acc) ==
    LET r2 == MagDouble(acc.r, BitAt(n, j))
    IN  IF MagLess(r2, d) THEN [q |-> MagDouble(acc.q, 0), r |-> r2]
        ELSE [q |-> MagDouble(acc.q, 1), r |-> MagSub(r2, d)]

\* k steps of the long division, from bit j down
RECURSIVE DivBits(_, _, _, _, _)
DivBits(n, d, j, k, acc) ==
    IF k = 0 THEN acc
    ELSE CHOOSE out \in {DivBits(n, d, j - 1, k - 1, a) : a \in {DivStep(n, d, j, acc)}} : TRUE

\* the long division from byte i of n on, a byte (8 steps) at a time; the
\* leading zero bytes of n leave quotient and remainder zero
RECURSIVE DivLoop(_, _, _, _)
DivLoop(n, d, i, acc) ==
    IF i >= MagLen(n) THEN acc
    ELSE IF n[i] = 0 /\ MagIsZero(acc.q) /\ MagIsZero(acc.r) THEN DivLoop(n, d, i + 1, acc)
    ELSE CHOOSE out \in {DivLoop(n, d, i + 1, a) :
                            a \in {DivBits(n, d, 8 * (MagLen(n) - i) - 1, 8, acc)}} : TRUE

\* |n| / |d| and |n| % |d| over 16 bytes (i128::checked_div, checked_rem, abs)
MagDivMod(n, d) == DivLoop(n, d, 0, [q |-> MagZero(16), r |-> MagZero(16)])

\* checked_div and checked_rem that take a zero divisor for one
CheckedDivRemByOne(n, d) ==
    IF MagIsZero(d) THEN [none |-> FALSE, q |-> n, r |-> MagZero(16)]
    ELSE [none |-> FALSE, q |-> MagDivMod(n, d).q, r |-> MagDivMod(n, d).r]

\* checked_div and checked_rem exchanged
CheckedDivRemSwapped(n, d) ==
    IF MagIsZero(d) THEN [none |-> TRUE, q |-> MagZero(16), r |-> MagZero(16)]
    ELSE The({[none |-> FALSE, q |-> qr.r, r |-> qr.q] : qr \in {MagDivMod(n, d)}})

\* i128::checked_div and i128::checked_rem of magnitudes: None for a zero
\* divisor
CheckedDivRem(n, d) ==
    IF MagIsZero(d) THEN [none |-> TRUE, q |-> MagZero(16), r |-> MagZero(16)]
    ELSE The({[none |-> FALSE, q |-> qr.q, r |-> qr.r] : qr \in {MagDivMod(n, d)}})

\* i128 -> i64 try_into of a non-negative value: fails above i64::MAX
FitsI64(m) == (\A i \in 0..7 : m[i] = 0) /\ m[8] < 128

\* the low 8 bytes of a 16-byte magnitude
Low8(m) == Arr([i \in 0..7 |-> m[i + 8]])

\* VM::handle_instr_div
handle_instr_div(s, instr, env) ==
    LET op == Operand(s, instr)
        target == to_i64_ranged(op.cell, to_range_inclusive(instr.field))
        orig_mag == Arr([i \in 0..15 |-> IF i < 6 THEN 0 ELSE TenBytes(s)[i - 5]])
        orig_signum == IF MagIsZero(orig_mag) THEN 0 ELSE get_sign(s.r_a)
        qr == CheckedDivRem(orig_mag, Widen(target.val.mag))
        by_zero == qr.none
        q_fits == ~by_zero /\ FitsI64(qr.q)
        r_fits == ~by_zero /\ FitsI64(qr.r)
        quotient == IF q_fits THEN Low8(qr.q) ELSE MagZero(8)
        remainder == IF r_fits THEN Low8(qr.r) ELSE MagZero(8)
        new_a == from_i64(HostInt(FALSE, quotient), 6, FALSE)
        new_x == from_i64(HostInt(FALSE, remainder), 6, FALSE)
        sign_a == IF orig_signum = HostSignum(target.val) THEN POS ELSE NEG
        overflow == ~q_fits \/ ~r_fits \/ new_a.overflow \/ new_x.overflow
    IN  IF op.res # "Ok" THEN Ret(s, op.res)
        ELSE IF instr.field = 7
             THEN Ret([s EXCEPT !.r_a = FloatWord(env.f32),
                                !.overflow = s.overflow \/ ~env.f32.finite], "Ok")
        ELSE IF target.panic THEN Ret(s, "Panic")
        ELSE Ret([s EXCEPT
                    !.r_a = [i \in 0..5 |-> IF i = 0 THEN sign_a ELSE new_a.word[i]],
                    !.r_x = [i \in 0..5 |-> IF i = 0 THEN s.r_a[0] ELSE new_x.word[i]],
                    !.overflow = s.overflow \/ overflow], "Ok")

\* ------------------------------------------------------------------------
\* VM::step: dispatch
\* ------------------------------------------------------------------------

\* the match on instr.opcode in VM::step
Dispatch(s, instr, devs, env, checks) ==
    LET c == instr.opcode
    IN  CASE c = OP_NOP -> handle_instr_nop(s, instr)
          [] c \in {OP_ADD, OP_SUB} -> handle_instr_add_sub(s, instr, env)
          [] c = OP_MUL -> handle_instr_mul(s, instr, env)
          [] c = OP_DIV -> handle_instr_div(s, instr, env)
          [] c = OP_SPECIAL -> handle_instr_special(s, instr, env)
          [] c = OP_SHIFT -> handle_instr_shift(s, instr, checks)
          [] c = OP_MOVE -> handle_instr_move(s, instr)
          [] c \in {OP_LDA, OP_LDX, OP_LDAN, OP_LDXN} ->
                handle_instr_load_6b(s, instr, c \in {OP_LDAN, OP_LDXN})
          [] c \in (OP_LDA + 1)..(OP_LDX - 1) \cup (OP_LDAN + 1)..(OP_LDXN - 1) ->
                handle_instr_load_3b(s, instr, c > OP_LDAN)
          [] c \in OP_STA..OP_STJ -> handle_instr_store(s, instr)
          [] c = OP_STZ -> handle_instr_store_zero(s, instr)
          [] c \in {OP_JBUS, OP_JRED} -> handle_instr_jbus_jred(s, instr, devs, env)
          [] c = OP_IOC -> handle_instr_ioc(s, instr, devs, env, checks)
          [] c \in {OP_IN, OP_OUT} -> handle_instr_in_out(s, instr, devs, env, checks)
          [] c = OP_JMP -> handle_instr_jmp(s, instr)
          [] c \in OP_JA..OP_JX -> handle_instr_jmp_reg(s, instr)
          [] c \in {OP_MODIFYA, OP_MODIFYX} -> handle_instr_modify_6b(s, instr)
          [] c \in (OP_MODIFYA + 1)..(OP_MODIFYX - 1) -> handle_instr_modify_3b(s, instr, checks)
          [] c \in {OP_CMPA, OP_CMPX} -> handle_instr_cmp_6b(s, instr, env)
          [] c \in (OP_CMPA + 1)..(OP_CMPX - 1) -> handle_instr_cmp_3b(s, instr)

\* VM::step on a machine that is not halted: fetch, decode, advance pc, run the
\* handler, and halt on any error it returns.  Mem::index panics when pc is
\* past the last cell.
StepRunning(s, devs, env, checks) ==
    IF s.pc >= MEM_SIZE THEN Ret(s, "Panic")
    ELSE The({
        IF instr.kind = "panic" THEN Ret(s, "Panic")
        ELSE IF instr.kind = "illegal" THEN Ret(halt(s), "IllegalInstruction")
        ELSE The({IF out.res \in {"Ok", "Panic"} THEN out ELSE [out EXCEPT !.s = halt(out.s)] :
                     out \in {Dispatch([s EXCEPT !.pc = s.pc + 1], instr, devs, env, checks)}}) :
        instr \in {DecodeInstr(MemAt(s.mem, s.pc), checks)}})

\* VM::step that does not look at halted
step_ignores_halted(s, devs, env, checks) == StepRunning(s, devs, env, checks)

\* VM::step
step(s, devs, env, checks) ==
    IF s.halted THEN Ret(s, "Halted") ELSE StepRunning(s, devs, env, checks)

\* VM::restart that also rewinds pc
restart_rewinds(s) == [s EXCEPT !.halted = FALSE, !.pc = 0]

\* VM::restart
restart(s) == [s EXCEPT !.halted = FALSE]

\* a reset of the registers and pc that leaves the flags
reset_keeps_flags(s) ==
    [s EXCEPT !.r_a = WordNew(6), !.r_x = WordNew(6),
              !.r_in = [i \in 0..6 |-> WordNew(3)], !.r_j = WordNew(3),
              !.pc = 0]

\* VM::reset
reset(s) ==
    [s EXCEPT !.r_a = WordNew(6), !.r_x = WordNew(6),
              !.r_in = [i \in 0..6 |-> WordNew(3)], !.r_j = WordNew(3),
              !.pc = 0, !.overflow = FALSE, !.comp = "Equal"]

\* VM::new: zeroed and halted, every memory cell the zero word
new ==
    [r_a |-> WordNew(6), r_x |-> WordNew(6), r_in |-> [i \in 0..6 |-> WordNew(3)],
     r_j |-> from_bytes(WordNew(3), TRUE), comp |-> "Equal", overflow |-> FALSE,
     halted |-> TRUE, pc |-> 0, mem |-> [a \in {} |-> ZeroWord]]

\* ------------------------------------------------------------------------
\* The machine as a state machine.  The fields of VM are the variables; the
\* host (main) loads a memory image, installs devices and sets pc on a new
\* VM, and then calls reset, restart and step.
\* ------------------------------------------------------------------------

VARIABLES
    r_a, r_x, r_in, r_j, comp, overflow, halted, pc, mem, \* struct VM
    io_devices,  \* VM::io_devices: whether the slot holds a device, and its block size
    checks,      \* whether the build checks integer overflow (debug) or wraps
    last_call,   \* the method of VM called last: "new", "reset", "restart", "step"
    result,      \* what the last call of step returned, "Panic" if it panicked
    fetched,     \* the pc and the word the last call of step fetched
    dev_calls,   \* the device methods the last call of step invoked
    steps,       \* number of calls of step that found the VM running
    host_val,    \* the i64 or the Instruction the host converts to a word
    conv         \* the word made of it, and what converting the word back returned

vm_vars == <<r_a, r_x, r_in, r_j, comp, overflow, halted, pc, mem, io_devices,
             checks, last_call, result, fetched, dev_calls, steps>>

vars == <<vm_vars, host_val, conv>>

\* the fields of the VM as one record
VM == [r_a |-> r_a, r_x |-> r_x, r_in |-> r_in, r_j |-> r_j, comp |-> comp,
       overflow |-> overflow, halted |-> halted, pc |-> pc, mem |-> mem]

\* the VM after the action is the record v
Becomes(v) ==
    /\ r_a' = v.r_a
    /\ r_x' = v.r_x
    /\ r_in' = v.r_in
    /\ r_j' = v.r_j
    /\ comp' = v.comp
    /\ overflow' = v.overflow
    /\ halted' = v.halted
    /\ pc' = v.pc
    /\ mem' = v.mem

\* no word fetched
NoFetch == [pc |-> -1, word |-> ZeroWord]

\* results of binary32 arithmetic a step may be handed
F32Outcomes ==
    {[sign |-> POS, bytes |-> [i \in 0..3 |-> 0], finite |-> TRUE],
     [sign |-> NEG, bytes |-> [i \in 0..3 |-> IF i = 0 THEN 255 ELSE IF i = 1 THEN 128 ELSE 0],
      finite |-> FALSE]}

\* what the devices and the floating-point unit do when nothing asks them
DefaultEnv ==
    [busy |-> "No", ready |-> "No", ctl_ok |-> TRUE, io_ok |-> TRUE, wrote |-> FALSE,
     word |-> ZeroWord, f32 |-> [sign |-> POS, bytes |-> [i \in 0..3 |-> 0], finite |-> TRUE],
     fcomp |-> "Equal"]

\* the word a device's read stores
DevWord == [i \in 0..5 |-> IF i = 0 THEN POS ELSE 30 + i]

\* the answers the environment can give to the instruction in word w
EnvsFor(w) ==
    LET c == w[5]
        f == w[4]
    IN  IF c = OP_JBUS THEN {[DefaultEnv EXCEPT !.busy = b] : b \in {"Yes", "No", "Err"}}
        ELSE IF c = OP_JRED THEN {[DefaultEnv EXCEPT !.ready = b] : b \in {"Yes", "No", "Err"}}
        ELSE IF c = OP_IOC THEN {[DefaultEnv EXCEPT !.ctl_ok = b] : b \in BOOLEAN}
        ELSE IF c \in {OP_IN, OP_OUT}
             THEN {[DefaultEnv EXCEPT !.io_ok = b, !.wrote = x, !.word = DevWord] :
                      b \in BOOLEAN, x \in BOOLEAN}
        ELSE IF (c \in {OP_ADD, OP_SUB, OP_MUL, OP_DIV} /\ f = 7) \/ (c = OP_SPECIAL /\ f \in 3..8)
             THEN {[DefaultEnv EXCEPT !.f32 = x] : x \in F32Outcomes}
        ELSE IF c \in {OP_CMPA, OP_CMPX} /\ f = 7
             THEN {[DefaultEnv EXCEPT !.fcomp = x] : x \in {"Equal", "Less", "Greater", "Unordered"}}
        ELSE {DefaultEnv}

\* the state after the host has set up a new VM
InitVM(images, entries, devices) ==
    /\ mem \in images
    /\ pc \in entries
    /\ io_devices \in devices
    /\ checks \in BOOLEAN
    /\ r_a = new.r_a
    /\ r_x = new.r_x
    /\ r_in = new.r_in
    /\ r_j = new.r_j
    /\ comp = new.comp
    /\ overflow = new.overflow
    /\ halted = new.halted
    /\ last_call = "new"
    /\ result = "None"
    /\ fetched = NoFetch
    /\ dev_calls = <<>>
    /\ steps = 0

\* no conversion made
NoConv ==
    [len |-> 0, panic |-> FALSE, word |-> ZeroWord, overflow |-> FALSE,
     back |-> HostInt(FALSE, MagZero(8)), back_overflow |-> FALSE]

\* the state after the host has set up a new VM and converted nothing
InitWith(images, entries, devices) ==
    /\ InitVM(images, entries, devices)
    /\ host_val = HostInt(FALSE, MagZero(8))
    /\ conv = NoConv

\* a call of VM::step; steps counts the calls that found the VM running
Step ==
    /\ result # "Panic"
    /\ halted \/ steps < MaxSteps
    /\ \E env \in EnvsFor(MemAt(mem, pc)) :
          \E out \in {step(VM, io_devices, env, checks)} :
              /\ Becomes(out.s)
              /\ result' = out.res
              /\ dev_calls' = out.calls
    /\ fetched' = IF halted \/ pc >= MEM_SIZE THEN NoFetch
                  ELSE [pc |-> pc, word |-> MemAt(mem, pc)]
    /\ last_call' = "step"
    /\ steps' = IF halted THEN steps ELSE steps + 1
    /\ UNCHANGED <<io_devices, checks, host_val, conv>>

\* a call of VM::restart
Restart ==
    /\ result # "Panic"
    /\ Becomes(restart(VM))
    /\ last_call' = "restart"
    /\ UNCHANGED <<io_devices, checks, result, fetched, dev_calls, steps, host_val, conv>>

\* a call of VM::reset
Reset ==
    /\ result # "Panic"
    /\ Becomes(reset(VM))
    /\ last_call' = "reset"
    /\ UNCHANGED <<io_devices, checks, result, fetched, dev_calls, steps, host_val, conv>>

Next == Step \/ Restart \/ Reset

\* ------------------------------------------------------------------------
\* Memory images and devices the host sets up
\* ------------------------------------------------------------------------

\* address of the data word of the images
DataAddr == 100

\* a full word from its six bytes
W6(b0, b1, b2, b3, b4, b5) ==
    [i \in 0..5 |-> IF i = 0 THEN b0 ELSE IF i = 1 THEN b1 ELSE IF i = 2 THEN b2
                    ELSE IF i = 3 THEN b3 ELSE IF i = 4 THEN b4 ELSE b5]

\* a memory image with word w0 at cell 0, w1 at cell 1 and d at DataAddr
Image(w0, w1, d) ==
    LET cells == [a \in {0, 1, DataAddr} |-> IF a = 0 THEN w0 ELSE IF a = 1 THEN w1 ELSE d]
    IN  [a \in {x \in DOMAIN cells : cells[x] # ZeroWord} |-> cells[a]]

\* the devices of main: a printer (block of 8 words) in slot 18, a reader
\* (block of 1 word) in slot 19
MainDevices ==
    [d \in 0..(NUM_DEVICES - 1) |->
        IF d = 18 THEN [present |-> TRUE, block_size |-> 8]
        ELSE IF d = 19 THEN [present |-> TRUE, block_size |-> 1]
        ELSE [present |-> FALSE, block_size |-> 0]]

\* every opcode, and two bytes that are no opcode
Opcodes == 0..(OPCODE_MAX + 1) \cup {255}

\* the opcodes that take a device number as their field
IoOpcodes == {OP_JBUS, OP_IOC, OP_IN, OP_OUT, OP_JRED}

\* the instructions of the main specification, all at cell 1:
\*   every opcode with the fields 0, 2 (0:2), 5 (0:5), 6 (0:6, past the word)
\*   and 13 (1:5) on the data word; the device opcodes with a printer (18), a
\*   reader (19), an empty slot (20) and no slot (21); float arithmetic (7);
\*   every opcode with the last cell, the cell past it and address -1; and
\*   every opcode with the index registers 1 and 7
MainInstrs ==
    {EncodeInstr(DataAddr, 0, f, c) : f \in {0, 2, 5}, c \in Opcodes}
    \cup {EncodeInstr(DataAddr, 0, f, c) : f \in {6, 13}, c \in 0..OPCODE_MAX}
    \cup {EncodeInstr(DataAddr, 0, f, c) : f \in 18..21, c \in IoOpcodes}
    \cup {EncodeInstr(DataAddr, 0, 7, c) :
             c \in {OP_ADD, OP_SUB, OP_MUL, OP_DIV, OP_SPECIAL, OP_CMPA, OP_CMPX}}
    \cup {EncodeInstr(a, 0, 5, c) : a \in {MEM_SIZE - 1, MEM_SIZE, -1}, c \in 0..OPCODE_MAX}
    \cup {EncodeInstr(a, 0, 18, c) : a \in {MEM_SIZE - 1, MEM_SIZE, -1}, c \in IoOpcodes}
    \cup {EncodeInstr(DataAddr, i, 5, c) : i \in {1, 7}, c \in 0..OPCODE_MAX}
    \cup {EncodeInstr(DataAddr, i, 2, c) : i \in {1, 7}, c \in OP_MODIFYA..OP_MODIFYX}
    \cup {EncodeInstr(DataAddr, i, 18, c) : i \in {1, 7}, c \in IoOpcodes}

\* what runs first, at cell 0: NOP, DIV by the zero word at cell 2 (sets
\* overflow), LD1 of the data word, and HLT
Preambles ==
    {ZeroWord,
     EncodeInstr(2, 0, 5, OP_DIV),
     EncodeInstr(DataAddr, 0, 5, OP_LDA + 1),
     EncodeInstr(0, 0, 2, OP_SPECIAL)}

\* the data word: -5
DataWords == {W6(NEG, 0, 0, 0, 0, 5)}

Images == {Image(w0, w1, d) : w0 \in Preambles, w1 \in MainInstrs, d \in DataWords}

Init == InitWith(Images, {0}, {MainDevices})

Spec == Init /\ [][Next]_vars

\* ------------------------------------------------------------------------
\* Jump programs
\* ------------------------------------------------------------------------

\* at cell 1: JMP .. JNE and two fields past them, to the data word and to
\* cell 2; the register jumps with every field; JBUS and JRED on each kind of
\* device slot; an indexed JMP; JMP to -1 and past the last cell; and every
\* opcode with field 5
JumpInstrs ==
    {EncodeInstr(a, 0, f, OP_JMP) : a \in {DataAddr, 2}, f \in 0..12}
    \cup {EncodeInstr(DataAddr, 0, f, c) : f \in 0..8, c \in OP_JA..OP_JX}
    \cup {EncodeInstr(DataAddr, 0, f, c) : f \in 18..21, c \in {OP_JBUS, OP_JRED}}
    \cup {EncodeInstr(DataAddr, 1, 0, OP_JMP),
          EncodeInstr(-1, 0, 0, OP_JMP),
          EncodeInstr(MEM_SIZE, 0, 0, OP_JMP)}
    \cup {EncodeInstr(DataAddr, 0, 5, c) : c \in 0..OPCODE_MAX}

\* at cell 0: NOP, DIV by zero (sets overflow), LDA, LD1, LDX and CMPA of the
\* data word
JumpPreambles ==
    {ZeroWord,
     EncodeInstr(2, 0, 5, OP_DIV),
     EncodeInstr(DataAddr, 0, 5, OP_LDA),
     EncodeInstr(DataAddr, 0, 5, OP_LDA + 1),
     EncodeInstr(DataAddr, 0, 5, OP_LDX),
     EncodeInstr(DataAddr, 0, 5, OP_CMPA)}

\* the data words: -5 and +6
JumpData == {W6(NEG, 0, 0, 0, 0, 5), W6(POS, 0, 0, 0, 0, 6)}

JumpImages == {Image(w0, w1, d) : w0 \in JumpPreambles, w1 \in JumpInstrs, d \in JumpData}

InitJump == InitWith(JumpImages, {0}, {MainDevices})

SpecJump == InitJump /\ [][Next]_vars

\* ------------------------------------------------------------------------
\* Arithmetic programs
\* ------------------------------------------------------------------------

\* the fields L:R with 0 <= L <= R <= 5
IntFields == {8 * l + r : l \in 0..5, r \in 0..5} \ {f \in 0..63 : f \div 8 > f % 8}

\* at cell 1: ADD and SUB of the data word with every such field, the float
\* field 7, 0:6 and 1:6 (past the word), and 1:0 and 2:0; INC and DEC of
\* every register by the address of the data word
ArithInstrs ==
    {EncodeInstr(DataAddr, 0, f, c) : f \in IntFields \cup {6, 7, 8, 14, 16}, c \in {OP_ADD, OP_SUB}}
    \cup {EncodeInstr(DataAddr, 0, f, c) : f \in {0, 1}, c \in OP_MODIFYA..OP_MODIFYX}

\* at cell 0: NOP, ENTA 5, ENTA 3, ENNA 3, LDA, LDX and LD1 of the data word,
\* and DIV by zero (sets overflow)
ArithPreambles ==
    {ZeroWord,
     EncodeInstr(5, 0, 2, OP_MODIFYA),
     EncodeInstr(3, 0, 2, OP_MODIFYA),
     EncodeInstr(3, 0, 3, OP_MODIFYA),
     EncodeInstr(DataAddr, 0, 5, OP_LDA),
     EncodeInstr(DataAddr, 0, 5, OP_LDX),
     EncodeInstr(DataAddr, 0, 5, OP_LDA + 1),
     EncodeInstr(2, 0, 5, OP_DIV)}

\* the data words: +7, +5, -5, -(1,2,3,4,5), the largest magnitude with
\* either sign, and +0
ArithData ==
    {W6(POS, 0, 0, 0, 0, 7), W6(POS, 0, 0, 0, 0, 5), W6(NEG, 0, 0, 0, 0, 5),
     W6(NEG, 1, 2, 3, 4, 5), W6(POS, 255, 255, 255, 255, 255),
     W6(NEG, 255, 255, 255, 255, 255), ZeroWord}

ArithImages == {Image(w0, w1, d) : w0 \in ArithPreambles, w1 \in ArithInstrs, d \in ArithData}

InitArith == InitWith(ArithImages, {0}, {MainDevices})

SpecArith == InitArith /\ [][Next]_vars

\* ------------------------------------------------------------------------
\* Multiplication and division programs
\* ------------------------------------------------------------------------

\* at cell 1: MUL of the data word with every field L:R, 0 <= L <= R <= 5,
\* DIV with 0:0, 0:4, 0:5, 1:5, 4:5 and 5:5, and both with 0:6 (past the
\* word) and with the float field 7
MulDivInstrs ==
    {EncodeInstr(DataAddr, 0, f, OP_MUL) : f \in IntFields \cup {6, 7}}
    \cup {EncodeInstr(DataAddr, 0, f, OP_DIV) : f \in {0, 4, 5, 6, 7, 13, 37, 45}}

\* at cell 0: NOP, ENTA 2, ENTA 3, ENNA 3, ENNA 0, LDA, LDAN and LDX of the
\* data word, and DIV by zero (sets overflow)
MulDivPreambles ==
    {ZeroWord,
     EncodeInstr(2, 0, 2, OP_MODIFYA),
     EncodeInstr(3, 0, 2, OP_MODIFYA),
     EncodeInstr(3, 0, 3, OP_MODIFYA),
     EncodeInstr(0, 0, 3, OP_MODIFYA),
     EncodeInstr(DataAddr, 0, 5, OP_LDA),
     EncodeInstr(DataAddr, 0, 5, OP_LDAN),
     EncodeInstr(DataAddr, 0, 5, OP_LDX),
     EncodeInstr(2, 0, 5, OP_DIV)}

\* the data words: +2, +5, -5, -(1,2,3,4,5), the largest magnitude, +0 and -0
MulDivData ==
    {W6(POS, 0, 0, 0, 0, 2), W6(POS, 0, 0, 0, 0, 5), W6(NEG, 0, 0, 0, 0, 5),
     W6(NEG, 1, 2, 3, 4, 5), W6(POS, 255, 255, 255, 255, 255),
     ZeroWord, W6(NEG, 0, 0, 0, 0, 0)}

MulDivImages ==
    {Image(w0, w1, d) : w0 \in MulDivPreambles, w1 \in MulDivInstrs, d \in MulDivData}

InitMulDiv == InitWith(MulDivImages, {0}, {MainDevices})

SpecMulDiv == InitMulDiv /\ [][Next]_vars

\* ------------------------------------------------------------------------
\* Load and store programs
\* ------------------------------------------------------------------------

\* the fields of the loads and stores: L:R with 0 <= L <= R <= 5, and 0:6,
\* 1:0, 1:6 and 7:7
LoadStoreFields == IntFields \cup {6, 8, 14, 63}

\* LDA at cell 0 and STA at cell 1 with the same address and field, for the
\* data word and for cell 1 itself
LoadThenStoreImages ==
    {Image(EncodeInstr(a, 0, f, OP_LDA), EncodeInstr(a, 0, f, OP_STA), d) :
        a \in {DataAddr, 1}, f \in IntFields,
        d \in {W6(NEG, 1, 2, 3, 4, 5), W6(POS, 9, 8, 7, 6, 5)}}

\* at cell 1: LDA, LDX, LDAN, LDXN and STZ of the data word with every field,
\* STA, ST1, STX and STJ with three fields
LoadStoreInstrs ==
    {EncodeInstr(DataAddr, 0, f, c) :
        f \in LoadStoreFields, c \in {OP_LDA, OP_LDX, OP_LDAN, OP_LDXN, OP_STZ}}
    \cup {EncodeInstr(DataAddr, 0, f, c) :
             f \in {5, 10, 13}, c \in {OP_STA, OP_STA + 1, OP_STX, OP_STJ}}

\* at cell 0: NOP, ENNA 3, ENNX 3 and ENT1 3
LoadStorePreambles ==
    {ZeroWord,
     EncodeInstr(3, 0, 3, OP_MODIFYA),
     EncodeInstr(3, 0, 3, OP_MODIFYX),
     EncodeInstr(3, 0, 2, OP_MODIFYA + 1)}

\* the data words: -(1,2,3,4,5), +(9,8,7,6,5), -0, and (0,0,0,0,7) with the
\* sign byte 2 (negative, not canonical)
LoadStoreData ==
    {W6(NEG, 1, 2, 3, 4, 5), W6(POS, 9, 8, 7, 6, 5), W6(NEG, 0, 0, 0, 0, 0),
     W6(2, 0, 0, 0, 0, 7)}

LoadStoreImages ==
    LoadThenStoreImages
    \cup {Image(w0, w1, d) :
             w0 \in LoadStorePreambles, w1 \in LoadStoreInstrs, d \in LoadStoreData}

InitLoadStore == InitWith(LoadStoreImages, {0}, {MainDevices})

SpecLoadStore == InitLoadStore /\ [][Next]_vars

\* ------------------------------------------------------------------------
\* Programs of INC, DEC, ENT and ENN
\* ------------------------------------------------------------------------

\* at cell 1: every opcode of the modify family with F = 0 .. 4, the addresses
\* -5, 5, 4000 and 32767, plain and indexed by rI1
ModifyInstrs ==
    {EncodeInstr(a, i, f, c) :
        a \in {-5, 5, MEM_SIZE, I16_MAX}, i \in {0, 1}, f \in 0..4,
        c \in OP_MODIFYA..OP_MODIFYX}

\* at cell 0: NOP, and LD1, LDA and LDX of the data word
ModifyPreambles ==
    {ZeroWord,
     EncodeInstr(DataAddr, 0, 5, OP_LDA + 1),
     EncodeInstr(DataAddr, 0, 5, OP_LDA),
     EncodeInstr(DataAddr, 0, 5, OP_LDX)}

\* the data words: -5, -65535 and +7
ModifyData ==
    {W6(NEG, 0, 0, 0, 0, 5), W6(NEG, 0, 0, 0, 255, 255), W6(POS, 0, 0, 0, 0, 7)}

ModifyImages ==
    {Image(w0, w1, d) : w0 \in ModifyPreambles, w1 \in ModifyInstrs, d \in ModifyData}

InitModify == InitWith(ModifyImages, {0}, {MainDevices})

SpecModify == InitModify /\ [][Next]_vars

\* ------------------------------------------------------------------------
\* Programs of CMPA, CMPX and CMP1-6
\* ------------------------------------------------------------------------

\* at cell 1: every compare opcode with every byte-range field and F = 6, 7
CompareInstrs ==
    {EncodeInstr(DataAddr, 0, f, c) : f \in IntFields \cup {6, 7}, c \in OP_CMPA..OP_CMPX}

\* at cell 0: NOP, ENTA 5, ENNA 5, ENNA 0, ENTX 6, ENN1 5, ENN2 0, ENT6 511,
\* and LDA and LD3 of the data word
ComparePreambles ==
    {ZeroWord,
     EncodeInstr(5, 0, 2, OP_MODIFYA),
     EncodeInstr(5, 0, 3, OP_MODIFYA),
     EncodeInstr(0, 0, 3, OP_MODIFYA),
     EncodeInstr(6, 0, 2, OP_MODIFYX),
     EncodeInstr(5, 0, 3, OP_MODIFYA + 1),
     EncodeInstr(0, 0, 3, OP_MODIFYA + 2),
     EncodeInstr(511, 0, 2, OP_MODIFYA + 6),
     EncodeInstr(DataAddr, 0, 5, OP_LDA),
     EncodeInstr(DataAddr, 0, 5, OP_LDA + 3)}

\* the data words: +5, -5, +0, -0, -(1,2,3,4,5), +(0,0,0,1,255) and +6
CompareData ==
    {W6(POS, 0, 0, 0, 0, 5), W6(NEG, 0, 0, 0, 0, 5), ZeroWord, W6(NEG, 0, 0, 0, 0, 0),
     W6(NEG, 1, 2, 3, 4, 5), W6(POS, 0, 0, 0, 1, 255), W6(POS, 0, 0, 0, 0, 6)}

CompareImages ==
    {Image(w0, w1, d) : w0 \in ComparePreambles, w1 \in CompareInstrs, d \in CompareData}

InitCompare == InitWith(CompareImages, {0}, {MainDevices})

SpecCompare == InitCompare /\ [][Next]_vars

\* ------------------------------------------------------------------------
\* Programs of JBUS, IOC, IN, OUT and JRED
\* ------------------------------------------------------------------------

\* devices whose blocks do not fit memory or a u16: an empty block in slot 0,
\* 65536 words in slot 18, and 65535 words in slot 19
WideDevices ==
    [d \in 0..(NUM_DEVICES - 1) |->
        IF d = 0 THEN [present |-> TRUE, block_size |-> 0]
        ELSE IF d = 18 THEN [present |-> TRUE, block_size |-> U16_MAX + 1]
        ELSE IF d = 19 THEN [present |-> TRUE, block_size |-> U16_MAX]
        ELSE [present |-> FALSE, block_size |-> 0]]

\* at cell 1: the five device opcodes with the slots 0, 18, 19, 20 and the
\* fields 21 and 255, on cell 1 itself, the data word, the last place a block
\* of 8 words ends in memory and the cell after it, the last cell, the cell
\* past it and address -1; and indexed by rI1
IoInstrs ==
    {EncodeInstr(a, 0, f, c) :
        a \in {1, DataAddr, MEM_SIZE - 9, MEM_SIZE - 8, MEM_SIZE - 1, MEM_SIZE, -1},
        f \in {0, 18, 19, 20, 21, 255}, c \in IoOpcodes}
    \cup {EncodeInstr(DataAddr, 1, f, c) : f \in {18, 20, 21}, c \in IoOpcodes}

\* at cell 0: NOP and LD1 of the data word
IoPreambles == {ZeroWord, EncodeInstr(DataAddr, 0, 5, OP_LDA + 1)}

\* the data words: -5 and +3900
IoData == {W6(NEG, 0, 0, 0, 0, 5), W6(POS, 0, 0, 0, 15, 60)}

IoImages == {Image(w0, w1, d) : w0 \in IoPreambles, w1 \in IoInstrs, d \in IoData}

\* the host starts the program at cell 0 or at the device instruction
InitIo == InitWith(IoImages, {0, 1}, {MainDevices, WideDevices})

SpecIo == InitIo /\ [][Next]_vars

\* ------------------------------------------------------------------------
\* Words to decode
\* ------------------------------------------------------------------------

\* at cell 1: both signs, the address bytes of 4000, 32767, 32768 and 61536, the
\* index bytes 0 and 7, the fields 0 and 255, and as byte 5 every opcode and
\* the bytes 64, 200 and 255
DecodeWords ==
    {W6(s, b[1], b[2], i, f, c) :
        s \in {POS, NEG}, b \in {<<15, 160>>, <<127, 255>>, <<128, 0>>, <<240, 96>>},
        i \in {0, 7}, f \in {0, 255}, c \in 0..(OPCODE_MAX + 1) \cup {200, 255}}

DecodeImages == {Image(ZeroWord, w1, W6(NEG, 0, 0, 0, 0, 5)) : w1 \in DecodeWords}

InitDecode == InitWith(DecodeImages, {0, 1}, {MainDevices})

SpecDecode == InitDecode /\ [][Next]_vars

\* ------------------------------------------------------------------------
\* Conversions of host integers
\* ------------------------------------------------------------------------

\* magnitudes of 8 bytes: zero, and a leading byte of 1, 128 or 255 at every
\* position followed by bytes that are all 0 or all 255
HostMagnitudes ==
    {MagZero(8)} \cup
    {Arr([i \in 0..7 |-> IF i < k THEN 0 ELSE IF i = k THEN x ELSE y]) :
        k \in 0..7, x \in {1, 128, 255}, y \in {0, 255}}

\* the 64-bit integers among them: magnitudes below 2^63, and -2^63
HostInputs ==
    {HostInt(neg, m) : neg \in BOOLEAN, m \in {x \in HostMagnitudes : x[0] < 128}}
    \cup {[neg |-> TRUE, mag |-> Arr([i \in 0..7 |-> IF i = 0 THEN 128 ELSE 0])]}

\* the host holds a new VM and an integer to convert
InitWord ==
    /\ InitVM({Image(ZeroWord, ZeroWord, ZeroWord)}, {0}, {MainDevices})
    /\ host_val \in HostInputs
    /\ conv = NoConv

\* what from_i64 for a word of n bytes returns for host_val, and to_i64 for
\* the word it made
Converted(n) ==
    The({[len |-> n, panic |-> r.panic, word |-> r.word, overflow |-> r.overflow,
          back |-> to_i64(r.word), back_overflow |-> to_i64_overflow(r.word)] :
            r \in {from_i64_call(host_val, n, FALSE, checks)}})

\* FullWord::from_i64(host_val), then to_i64
ConvertFull ==
    /\ conv.len = 0
    /\ conv' = Converted(6)
    /\ UNCHANGED <<vm_vars, host_val>>

\* HalfWord::from_i64(host_val), then to_i64
ConvertHalf ==
    /\ conv.len = 0
    /\ conv' = Converted(3)
    /\ UNCHANGED <<vm_vars, host_val>>

NextWord == ConvertFull \/ ConvertHalf

SpecWord == InitWord /\ [][NextWord]_vars

\* ------------------------------------------------------------------------
\* Conversions of instructions
\* ------------------------------------------------------------------------

\* the instructions the host encodes: every opcode, index and field bytes 0,
\* an ordinary one and 255, and addresses of either sign up to the ends of i16
CodecInputs ==
    [addr : {0, 1, -1, 255, 256, -256, MEM_SIZE, I16_MAX, -I16_MAX, -(I16_MAX + 1)},
     index : {0, 6, 255}, field : {0, 5, 255}, opcode : 0..OPCODE_MAX]

\* the host holds a new VM and an instruction to convert
InitCodec ==
    /\ InitVM({Image(ZeroWord, ZeroWord, ZeroWord)}, {0}, {MainDevices})
    /\ host_val \in CodecInputs
    /\ conv = NoConv

\* FullWord::from(host_val)
Encode ==
    /\ conv.len = 0
    /\ conv' = [NoConv EXCEPT !.len = 6,
                   !.word = EncodeInstr(host_val.addr, host_val.index, host_val.field,
                                        host_val.opcode)]
    /\ UNCHANGED <<vm_vars, host_val>>

\* Instruction::try_from of the word made
Decode ==
    /\ conv.len = 6 /\ conv.back = NoConv.back
    /\ \E instr \in {DecodeInstr(conv.word, checks)} :
          conv' = [conv EXCEPT !.back = instr, !.panic = (instr.kind = "panic")]
    /\ UNCHANGED <<vm_vars, host_val>>

NextCodec == Encode \/ Decode

SpecCodec == InitCodec /\ [][NextCodec]_vars

\* ------------------------------------------------------------------------
\* Shift programs
\* ------------------------------------------------------------------------

\* the counts shifted by: below, at and past the widths of 5 and 10 bytes and
\* of 64, 80 and 128 bits, and 8192, whose product with 8 leaves a u16
ShiftCounts == {0, 1, 3, 5, 7, 8, 9, 10, 12, 13, 15, 16, 20, 79, 80, 127, 128, 8192}

\* the memory of a shift program: the shift at cell 0, an SRC by the same
\* count after an SLC (or nothing) at cell 1, and the words rA and rX are
\* loaded from at DataAddr and DataAddr + 1
ShiftImage(w0, w1, a, x) ==
    LET cells == [c \in {0, 1, DataAddr, DataAddr + 1} |->
                    IF c = 0 THEN w0 ELSE IF c = 1 THEN w1
                    ELSE IF c = DataAddr THEN a ELSE x]
    IN  [c \in {y \in DOMAIN cells : cells[y] # ZeroWord} |-> cells[c]]

\* every count with the fields 0..8 of the shift opcode; rA and rX of either
\* sign with ten different magnitude bytes
ShiftImages ==
    {ShiftImage(EncodeInstr(m, 0, f, OP_SHIFT),
                IF f = 4 /\ back THEN EncodeInstr(m, 0, 5, OP_SHIFT) ELSE ZeroWord,
                W6(sa, 129, 2, 3, 4, 5), W6(sx, 6, 7, 8, 9, 255)) :
        m \in ShiftCounts, f \in 0..8, back \in BOOLEAN, sa \in {POS, NEG}, sx \in {POS, NEG}}

\* the host has loaded rA and rX from DataAddr and DataAddr + 1
InitShift ==
    /\ mem \in ShiftImages
    /\ pc = 0
    /\ io_devices = MainDevices
    /\ checks \in BOOLEAN
    /\ r_a = MemAt(mem, DataAddr)
    /\ r_x = MemAt(mem, DataAddr + 1)
    /\ r_in = new.r_in
    /\ r_j = new.r_j
    /\ comp = new.comp
    /\ overflow = new.overflow
    /\ halted = new.halted
    /\ last_call = "new"
    /\ result = "None"
    /\ fetched = NoFetch
    /\ dev_calls = <<>>
    /\ steps = 0
    /\ host_val = HostInt(FALSE, MagZero(8))
    /\ conv = NoConv

\* the host restarts and steps, and never resets
NextShift == Step \/ Restart

SpecShift == InitShift /\ [][NextShift]_vars

\* ------------------------------------------------------------------------
\* Special programs: NUM, CHAR, NOT, AND, OR, XOR
\* ------------------------------------------------------------------------

\* the magnitudes of rA: 0, 5, 10^10 - 1, 10^10, 2^40 - 1, and five
\* different bytes
SpecialMagnitudes ==
    {<<0, 0, 0, 0, 0>>, <<0, 0, 0, 0, 5>>, <<2, 84, 11, 227, 255>>, <<2, 84, 11, 228, 0>>,
     <<255, 255, 255, 255, 255>>, <<129, 2, 3, 4, 5>>}

\* the fields of the Special opcode that are run in pairs
SpecialFields == {0, 1, 9, 10, 11, 12}

\* the memory of a special program: two instructions at cells 0 and 1, the
\* words rA and rX are loaded from at DataAddr and DataAddr + 1, and the
\* operand of AND, OR and XOR at DataAddr + 2
SpecialImage(w0, w1, a, x, v) ==
    LET cells == [c \in {0, 1, DataAddr, DataAddr + 1, DataAddr + 2} |->
                    IF c = 0 THEN w0 ELSE IF c = 1 THEN w1
                    ELSE IF c = DataAddr THEN a ELSE IF c = DataAddr + 1 THEN x ELSE v]
    IN  [c \in {y \in DOMAIN cells : cells[y] # ZeroWord} |-> cells[c]]

\* every pair of the fields, on rA of either sign and every magnitude, rX of
\* either sign, and two operands
SpecialImages ==
    {SpecialImage(EncodeInstr(DataAddr + 2, 0, f0, OP_SPECIAL),
                  EncodeInstr(DataAddr + 2, 0, f1, OP_SPECIAL),
                  W6(sa, m[1], m[2], m[3], m[4], m[5]), W6(sx, 6, 7, 8, 9, 255),
                  W6(sv, 15, 240, 170, 85, 255)) :
        f0 \in SpecialFields, f1 \in SpecialFields, m \in SpecialMagnitudes,
        sa \in {POS, NEG}, sx \in {POS, NEG}, sv \in {POS, NEG}}

\* the host has loaded rA and rX from DataAddr and DataAddr + 1
InitSpecial ==
    /\ mem \in SpecialImages
    /\ pc = 0
    /\ io_devices = MainDevices
    /\ checks \in BOOLEAN
    /\ r_a = MemAt(mem, DataAddr)
    /\ r_x = MemAt(mem, DataAddr + 1)
    /\ r_in = new.r_in
    /\ r_j = new.r_j
    /\ comp = new.comp
    /\ overflow = new.overflow
    /\ halted = new.halted
    /\ last_call = "new"
    /\ result = "None"
    /\ fetched = NoFetch
    /\ dev_calls = <<>>
    /\ steps = 0
    /\ host_val = HostInt(FALSE, MagZero(8))
    /\ conv = NoConv

SpecSpecial == InitSpecial /\ [][NextShift]_vars

\* ------------------------------------------------------------------------
\* Programs at the end of memory
\* ------------------------------------------------------------------------

\* at cell 0: JMP to the last cell, past it, to the largest address and to
\* -1; JSJ, JOV (not taken), JNOV, JAZ, J1Z and JBUS past the last cell; and
\* a JMP and a NOP that stay inside
EdgeInstrs ==
    {EncodeInstr(a, 0, 0, OP_JMP) : a \in {MEM_SIZE - 1, MEM_SIZE, I16_MAX, -1, DataAddr}}
    \cup {EncodeInstr(MEM_SIZE, 0, f, OP_JMP) : f \in 1..3}
    \cup {EncodeInstr(MEM_SIZE, 0, 1, c) : c \in {OP_JA, OP_JA + 1}}
    \cup {EncodeInstr(MEM_SIZE, 0, 18, OP_JBUS), ZeroWord}

\* at the last cell: NOP, HLT, JMP 0, LDA of the data word, and a byte that
\* is no opcode
EdgeWords ==
    {ZeroWord, EncodeInstr(0, 0, 2, OP_SPECIAL), EncodeInstr(0, 0, 0, OP_JMP),
     EncodeInstr(DataAddr, 0, 5, OP_LDA), W6(POS, 0, 0, 0, 0, 255)}

\* a memory image with w0 at cell 0 and w at the last cell
EdgeImage(w0, w) ==
    LET cells == [a \in {0, MEM_SIZE - 1} |-> IF a = 0 THEN w0 ELSE w]
    IN  [a \in {x \in DOMAIN cells : cells[x] # ZeroWord} |-> cells[a]]

EdgeImages == {EdgeImage(w0, w) : w0 \in EdgeInstrs, w \in EdgeWords}

\* the program is entered at cell 0 or at the last cell
InitEdge == InitWith(EdgeImages, {0, MEM_SIZE - 1}, {MainDevices})

SpecEdge == InitEdge /\ [][Next]_vars

\* ------------------------------------------------------------------------
\* Register jump programs
\* ------------------------------------------------------------------------

\* at cell 1: JA, J1 .. J6 and JX with the fields 0 .. 8, to the data word
RegJumpInstrs == {EncodeInstr(DataAddr, 0, f, c) : f \in 0..8, c \in OP_JA..OP_JX}

\* at cell 0: NOP, and LDA, LD1, LD3, LD6 and LDX of the data word
RegJumpPreambles ==
    {ZeroWord} \cup {EncodeInstr(DataAddr, 0, 5, c) : c \in {OP_LDA, OP_LDA + 1, OP_LDA + 3,
                                                          OP_LDA + 6, OP_LDX}}

\* the data words: -0, -5, -4, +6 and +7
RegJumpData ==
    {W6(NEG, 0, 0, 0, 0, 0), W6(NEG, 0, 0, 0, 0, 5), W6(NEG, 0, 0, 0, 0, 4),
     W6(POS, 0, 0, 0, 0, 6), W6(POS, 0, 0, 0, 0, 7)}

RegJumpImages ==
    {Image(w0, w1, d) : w0 \in RegJumpPreambles, w1 \in RegJumpInstrs, d \in RegJumpData}

InitRegJump == InitWith(RegJumpImages, {0}, {MainDevices})

SpecRegJump == InitRegJump /\ [][Next]_vars

\* ------------------------------------------------------------------------
\* Subroutine linkage programs
\* ------------------------------------------------------------------------

\* where the calling jump stands
LinkEntries == {0, 300, 767}

\* the calling instruction: JMP, JSJ, JOV (not taken) and JAZ to cell 1, NOP
LinkInstrs ==
    {EncodeInstr(1, 0, f, OP_JMP) : f \in 0..2} \cup {EncodeInstr(1, 0, 1, OP_JA), ZeroWord}

\* at cell 1, the entry of the subroutine: STJ into the data word with the
\* fields 0:2, 0:0, 0:5 and 1:2, STJ 0:2 into cell 0, and STA 0:2
LinkWords ==
    {EncodeInstr(DataAddr, 0, f, OP_STJ) : f \in {2, 0, 5, 10}}
    \cup {EncodeInstr(0, 0, 2, OP_STJ), EncodeInstr(DataAddr, 0, 2, OP_STA)}

\* the data word, where the subroutine's exit stands: JMP 0 and a negative
\* word with the opcode of JMP
LinkData == {W6(POS, 0, 0, 0, 0, OP_JMP), W6(NEG, 9, 8, 3, 7, OP_JMP)}

\* a memory image with the call at cell p, the entry at cell 1 and the exit
\* at DataAddr
LinkImage(p, w0, w1, d) ==
    LET cells == [a \in {p, 1, DataAddr} |-> IF a = p THEN w0 ELSE IF a = 1 THEN w1 ELSE d]
    IN  [a \in {x \in DOMAIN cells : cells[x] # ZeroWord} |-> cells[a]]

\* the program is entered at the call
InitLink ==
    \E p \in LinkEntries :
        InitWith({LinkImage(p, w0, w1, d) : w0 \in LinkInstrs, w1 \in LinkWords, d \in LinkData},
                 {p}, {MainDevices})

SpecLink == InitLink /\ [][Next]_vars

\* ------------------------------------------------------------------------
\* Division programs on a loaded rA and rX
\* ------------------------------------------------------------------------

\* the magnitudes of rA, rX and the divisor
DivMagnitudes ==
    {<<0, 0, 0, 0, 0>>, <<0, 0, 0, 0, 1>>, <<1, 2, 3, 4, 5>>, <<255, 255, 255, 255, 255>>}

\* DIV at cell 0 with the fields 0:5, 1:5 and 5:5 of the divisor at
\* DataAddr + 2; rA of either sign and rX loaded from DataAddr and
\* DataAddr + 1
DivImages ==
    {SpecialImage(EncodeInstr(DataAddr + 2, 0, f, OP_DIV), ZeroWord,
                  W6(sa, a[1], a[2], a[3], a[4], a[5]), W6(POS, x[1], x[2], x[3], x[4], x[5]),
                  W6(sv, v[1], v[2], v[3], v[4], v[5])) :
        f \in {5, 13, 45}, sa \in {POS, NEG}, sv \in {POS, NEG},
        a \in DivMagnitudes,
        x \in {<<0, 0, 0, 0, 0>>, <<6, 7, 8, 9, 255>>, <<255, 255, 255, 255, 255>>},
        v \in DivMagnitudes \cup {<<0, 0, 0, 0, 7>>}}

\* the host has loaded rA and rX from DataAddr and DataAddr + 1
InitLoaded(images) ==
    /\ mem \in images
    /\ pc = 0
    /\ io_devices = MainDevices
    /\ checks \in BOOLEAN
    /\ r_a = MemAt(mem, DataAddr)
    /\ r_x = MemAt(mem, DataAddr + 1)
    /\ r_in = new.r_in
    /\ r_j = new.r_j
    /\ comp = new.comp
    /\ overflow = new.overflow
    /\ halted = new.halted
    /\ last_call = "new"
    /\ result = "None"
    /\ fetched = NoFetch
    /\ dev_calls = <<>>
    /\ steps = 0
    /\ host_val = HostInt(FALSE, MagZero(8))
    /\ conv = NoConv

InitDiv == InitLoaded(DivImages)

SpecDiv == InitDiv /\ [][NextShift]_vars

\* ------------------------------------------------------------------------
\* MOVE programs
\* ------------------------------------------------------------------------

\* at cell 1: MOVE of 0 .. 3 words from cell 0, cell 1, the data word, the
\* last cell and the cell past it
MoveInstrs ==
    {EncodeInstr(a, 0, n, OP_MOVE) : a \in {0, 1, DataAddr, MEM_SIZE - 1, MEM_SIZE}, n \in 0..3}

\* at cell 0: NOP and LD1 of the data word
MovePreambles == {ZeroWord, EncodeInstr(DataAddr, 0, 5, OP_LDA + 1)}

\* the data words rI1 is loaded from: -0, +1, +2, -5, +200, +3999 and +65535
MoveData ==
    {W6(NEG, 0, 0, 0, 0, 0), W6(POS, 0, 0, 0, 0, 1), W6(POS, 0, 0, 0, 0, 2),
     W6(NEG, 0, 0, 0, 0, 5), W6(POS, 0, 0, 0, 0, 200), W6(POS, 0, 0, 0, 15, 159),
     W6(POS, 0, 0, 0, 255, 255)}

MoveImages == {Image(w0, w1, d) : w0 \in MovePreambles, w1 \in MoveInstrs, d \in MoveData}

InitMove == InitWith(MoveImages, {0}, {MainDevices})

SpecMove == InitMove /\ [][Next]_vars

\* ------------------------------------------------------------------------
\* Properties: vocabulary
\* ------------------------------------------------------------------------

\* the instruction the next call of step decodes
Cur == DecodeInstr(MemAt(mem, pc), checks)

\* the next call of step fetches and decodes an instruction
Fetches == ~halted /\ pc < MEM_SIZE /\ Cur.kind = "ok"

\* the transition is a call of step
StepCall == last_call' = "step"

\* the value of index register i (rI0 is the constant zero)
IdxValue(i) == get_sign(r_in[i]) * (r_in[i][1] * 256 + r_in[i][2])

\* the effective address M = A + value(rI[I]) of the next instruction
SpecM == Cur.addr + IdxValue(Cur.index)

\* the last call of step fetched an instruction with opcode c and field f
Ran(c, f) == last_call = "step" /\ fetched.pc >= 0 /\ fetched.word[5] = c /\ fetched.word[4] = f

\* a call of step leaves registers, flags and memory alone
SameRegsMem == UNCHANGED <<r_a, r_x, r_in, r_j, comp, overflow, mem>>

\* ------------------------------------------------------------------------
\* Properties
\* ------------------------------------------------------------------------

\* C1: after a call of step that returned an error the VM is halted; after a
\* call that returned Ok the VM is halted only if the instruction was HLT
\* (Special, F = 2).
C1_ErrorHalts ==
    last_call = "step" =>
        /\ (result \notin {"Ok", "Panic"}) => halted
        /\ (result = "Ok" /\ halted) =>
               (fetched.word[5] = OP_SPECIAL /\ fetched.word[4] = 2)

\* a step at cell 1 returned InvalidField and left the VM halted
C1_Witness ==
    last_call = "step" /\ result = "InvalidField" /\ fetched.pc = 1 /\ halted

\* C2: while halted, a call of step returns Err(Halted) and changes no
\* register, flag, pc, memory cell or device slot; halted is cleared by
\* restart only.
C2_HaltedStepsDoNothing ==
    [][ /\ (halted /\ StepCall) =>
             (result' = "Halted" /\ SameRegsMem /\ UNCHANGED <<pc, halted, io_devices>>)
        /\ (halted /\ ~halted') => last_call' = "restart" ]_vars

\* the VM ran an instruction, halted, and a further call of step returned
\* Err(Halted)
C2_Witness ==
    last_call = "step" /\ result = "Halted" /\ steps >= 1 /\ halted

\* C3: HLT returns Ok, sets halted and changes nothing else but pc, which is
\* the address after it; restart changes nothing but halted; and a running VM
\* fetches at pc: so the step after the restart runs the instruction after HLT
\* on the state HLT left.
C3_HltThenRestart ==
    [][ /\ (StepCall /\ Fetches /\ Cur.opcode = OP_SPECIAL /\ Cur.field = 2) =>
             (result' = "Ok" /\ halted' /\ pc' = pc + 1 /\ SameRegsMem)
        /\ (last_call' = "restart") =>
             (~halted' /\ SameRegsMem /\ UNCHANGED <<pc, io_devices>>)
        /\ (StepCall /\ ~halted /\ pc < MEM_SIZE) =>
             (fetched'.pc = pc /\ fetched'.word = MemAt(mem, pc)) ]_vars

\* HLT at cell 0 ran, the VM was restarted, and the next step ran cell 1
C3_Witness ==
    /\ MemAt(mem, 0) = EncodeInstr(0, 0, 2, OP_SPECIAL)
    /\ last_call = "step" /\ fetched.pc = 1 /\ result = "Ok"

\* the memory-touching instructions: ADD, SUB, MUL, DIV, MOVE, the loads,
\* the stores, STZ, the compares, and AND, OR, XOR (Special, F = 10 .. 12)
TouchesMemory(instr) ==
    \/ instr.opcode \in OP_ADD..OP_DIV
    \/ instr.opcode = OP_MOVE
    \/ instr.opcode \in OP_LDA..OP_STZ
    \/ instr.opcode \in OP_CMPA..OP_CMPX
    \/ (instr.opcode = OP_SPECIAL /\ instr.field \in 10..12)

\* C4: a memory-touching instruction whose effective address M is negative,
\* exceeds u16 or is >= 4000 makes step return Err(InvalidAddress) and halt,
\* with memory unchanged.
C4_BadAddressIsError ==
    [][ (StepCall /\ Fetches /\ TouchesMemory(Cur) /\ Cur.index \in 0..6
            /\ (SpecM < 0 \/ SpecM > U16_MAX \/ SpecM >= MEM_SIZE))
        => (result' = "InvalidAddress" /\ halted' /\ mem' = mem) ]_vars

\* the instructions that compute M from A and I before anything else: the
\* arithmetic, shift, MOVE, the loads and stores, JMP and the register jumps,
\* INC/DEC/ENT/ENN, the compares, and IOC
ComputesAddress(instr) ==
    \/ instr.opcode \in OP_ADD..OP_DIV
    \/ instr.opcode \in {OP_SHIFT, OP_MOVE, OP_IOC}
    \/ instr.opcode \in OP_LDA..OP_STZ
    \/ instr.opcode \in OP_JMP..OP_CMPX

\* C5: an instruction that computes an address or immediate from A and I with
\* an index byte outside 0..=6 makes step return Err(InvalidIndex) and halt.
C5_BadIndexIsError ==
    [][ (StepCall /\ Fetches /\ ComputesAddress(Cur) /\ Cur.index \notin 0..6)
        => (result' = "InvalidIndex" /\ halted') ]_vars

\* whether the jump the next call of step decodes is taken: the condition of
\* JMP's field, of the register jump's field, or the device's answer
JumpTaken ==
    IF Cur.opcode = OP_JMP THEN JmpCondition(VM, Cur.field) = "Jump"
    ELSE IF Cur.opcode \in OP_JA..OP_JX
         THEN RegJmpCondition(IF Cur.opcode = OP_JA THEN r_a
                              ELSE IF Cur.opcode = OP_JX THEN r_x
                              ELSE r_in[Cur.opcode - OP_JA],
                              Cur.field, Cur.opcode \in {OP_JA, OP_JX}) = "Jump"
    ELSE IF Cur.opcode \in {OP_JBUS, OP_JRED}
         THEN dev_calls' # <<>> /\ dev_calls'[1].ans = "Yes"
    ELSE FALSE

\* the next instruction is a jump
IsJump == Cur.opcode \in {OP_JMP, OP_JBUS, OP_JRED} \cup OP_JA..OP_JX

\* C6: after a successful step started at pc = p, pc = M if the instruction
\* was a taken jump, and pc = p + 1 otherwise.
C6_PcAfterStep ==
    [][ (StepCall /\ Fetches /\ result' = "Ok")
        => pc' = IF JumpTaken THEN SpecM ELSE pc + 1 ]_vars

\* the jump at cell 1 of a register other than rA or rX was taken to the
\* data word
C6_Witness ==
    /\ last_call = "step" /\ result = "Ok" /\ fetched.pc = 1
    /\ fetched.word[5] \in (OP_JA + 1)..(OP_JX - 1)
    /\ pc = DataAddr

\* C7: a taken jump other than JSJ fetched at p leaves rJ = +(p + 1), big
\* endian in bytes 1..2; JSJ and a jump that is not taken leave rJ unchanged.
C7_JumpRegister ==
    [][ (StepCall /\ Fetches /\ IsJump /\ result' = "Ok")
        => r_j' = IF JumpTaken /\ ~(Cur.opcode = OP_JMP /\ Cur.field = 1)
                  THEN [i \in 0..2 |-> IF i = 0 THEN POS
                                       ELSE IF i = 1 THEN (pc + 1) \div 256
                                       ELSE (pc + 1) % 256]
                  ELSE r_j ]_vars

\* JBUS at cell 1 found its device busy and jumped: rJ = 2
C7_Witness ==
    /\ Ran(OP_JBUS, 18) /\ result = "Ok" /\ fetched.pc = 1
    /\ pc = DataAddr
    /\ r_j[0] = POS /\ r_j[1] = 0 /\ r_j[2] = 2

\* C8: after a successful JOV or JNOV overflow is false; JOV jumps exactly
\* when overflow was true, JNOV exactly when it was false (a jump to the next
\* cell is not told apart from no jump).
C8_JovJnov ==
    [][ (StepCall /\ Fetches /\ Cur.opcode = OP_JMP /\ Cur.field \in {2, 3} /\ result' = "Ok")
        => /\ ~overflow'
           /\ (SpecM # pc + 1) =>
                 ((pc' = SpecM) <=> (IF Cur.field = 2 THEN overflow ELSE ~overflow)) ]_vars

\* DIV by zero at cell 0 set overflow, and JOV at cell 1 jumped and cleared it
C8_Witness ==
    /\ MemAt(mem, 0) = EncodeInstr(2, 0, 5, OP_DIV)
    /\ Ran(OP_JMP, 2) /\ result = "Ok" /\ fetched.pc = 1
    /\ pc = DataAddr /\ ~overflow

\* C9: overflow goes from true to false only in a call of reset or in a step
\* that executes JOV or JNOV.
C9_OverflowSticky ==
    [][ (overflow /\ ~overflow')
        => \/ last_call' = "reset"
           \/ (StepCall /\ Fetches /\ Cur.opcode = OP_JMP /\ Cur.field \in {2, 3}) ]_vars

\* DIV by zero at cell 0 set overflow, and it is still set after an
\* instruction at cell 1 that is not a jump
C9_Witness ==
    /\ MemAt(mem, 0) = EncodeInstr(2, 0, 5, OP_DIV)
    /\ last_call = "step" /\ result = "Ok" /\ fetched.pc = 1
    /\ fetched.word[5] = OP_ADD
    /\ overflow

\* ------------------------------------------------------------------------
\* Properties: signed values of five bytes as two limbs (bytes 1..2 and bytes
\* 3..5), the arithmetic ADD and SUB are specified with
\* ------------------------------------------------------------------------

\* the signed value of five magnitude bytes
Limbs(neg, b1, b2, b3, b4, b5) ==
    [neg |-> neg, hi |-> b1 * 256 + b2, lo |-> (b3 * 256 + b4) * 256 + b5]

\* the value of a full word
WordValue(w) == Limbs(w[0] # POS, w[1], w[2], w[3], w[4], w[5])

\* V: bytes L..R of the cell (the sign byte is not a magnitude byte), right
\* aligned, negative only if L = 0 and the cell is
FieldValue(cell, l, r) ==
    LET first == IF l = 0 THEN 1 ELSE l
        len == r - first + 1
        at(k) == IF 5 - k < len THEN cell[r - (5 - k)] ELSE 0
    IN  Limbs(l = 0 /\ cell[0] # POS, at(1), at(2), at(3), at(4), at(5))

LimbIsZero(v) == v.hi = 0 /\ v.lo = 0

LimbLess(v, w) == v.hi < w.hi \/ (v.hi = w.hi /\ v.lo < w.lo)

\* |v| + |w| with the sign of v
LimbAddMag(v, w) ==
    LET lo == v.lo + w.lo
    IN  [neg |-> v.neg, hi |-> v.hi + w.hi + (lo \div (256 * 65536)), lo |-> lo % (256 * 65536)]

\* |v| - |w| with the sign of v, for |v| >= |w|
LimbSubMag(v, w) ==
    IF v.lo >= w.lo THEN [neg |-> v.neg, hi |-> v.hi - w.hi, lo |-> v.lo - w.lo]
    ELSE [neg |-> v.neg, hi |-> v.hi - w.hi - 1, lo |-> v.lo + (256 * 65536) - w.lo]

LimbSum(v, w) ==
    IF v.neg = w.neg THEN LimbAddMag(v, w)
    ELSE IF LimbLess(v, w) THEN LimbSubMag(w, v)
    ELSE LimbSubMag(v, w)

LimbNegate(v) == [v EXCEPT !.neg = ~v.neg]

\* the value fits five magnitude bytes
LimbFits(v) == v.hi < 65536

\* two values are the same number (zero has no sign)
LimbSame(v, w) ==
    v.hi = w.hi /\ v.lo = w.lo /\ (LimbIsZero(v) \/ v.neg = w.neg)

\* rA + V or rA - V for the ADD or SUB the next call of step decodes
ArithResult ==
    LET v == FieldValue(MemAt(mem, SpecM), Cur.field \div 8, Cur.field % 8)
    IN  LimbSum(WordValue(r_a), IF Cur.opcode = OP_ADD THEN v ELSE LimbNegate(v))

\* C10: ADD and SUB with a field L:R, 0 <= L <= R <= 5, and a result that
\* fits five bytes return Ok and leave that result in rA; overflow, rX, memory
\* and the comparison indicator are unchanged.
C10_AddSub ==
    [][ (StepCall /\ Fetches /\ Cur.opcode \in {OP_ADD, OP_SUB}
            /\ Cur.field \div 8 <= Cur.field % 8 /\ Cur.field % 8 <= 5
            /\ Cur.index \in 0..6 /\ SpecM \in 0..(MEM_SIZE - 1)
            /\ LimbFits(ArithResult))
        => /\ result' = "Ok"
           /\ LimbSame(WordValue(r_a'), ArithResult)
           /\ UNCHANGED <<overflow, r_x, mem, comp>> ]_vars

\* ENTA 5 at cell 0, then ADD of the data word +7: rA = [+, 0, 0, 0, 0, 12]
C10_Witness ==
    /\ MemAt(mem, 0) = EncodeInstr(5, 0, 2, OP_MODIFYA)
    /\ MemAt(mem, DataAddr) = W6(POS, 0, 0, 0, 0, 7)
    /\ Ran(OP_ADD, 5) /\ result = "Ok" /\ fetched.pc = 1
    /\ r_a = W6(POS, 0, 0, 0, 0, 12)
    /\ ~overflow

\* ------------------------------------------------------------------------
\* Properties: results that do not fit the register
\* ------------------------------------------------------------------------

\* the sign byte of a signed value
SignByte(neg) == IF neg THEN NEG ELSE POS

\* rA or rX changed by +M (INC) or -M (DEC), for the instruction the next
\* call of step decodes
IncResult6 ==
    LET m == [neg |-> Cur.field = 1, hi |-> 0, lo |-> SpecM]
    IN  LimbSum(WordValue(IF Cur.opcode = OP_MODIFYA THEN r_a ELSE r_x), m)

\* rIn changed by +M (INC) or -M (DEC)
IncResult3 ==
    IdxValue(Cur.opcode - OP_MODIFYA) + (IF Cur.field = 0 THEN SpecM ELSE -SpecM)

\* the absolute value of an integer
Abs(k) == IF k < 0 THEN -k ELSE k

\* a step that overflows returns Ok, leaves the VM running and sets overflow
OverflowOnly == result' = "Ok" /\ ~halted' /\ overflow'

\* the full word w holds the low five magnitude bytes and the sign of v
HoldsLow5(w, v) ==
    /\ w[0] = SignByte(v.neg)
    /\ WordValue(w).hi = v.hi % 65536
    /\ WordValue(w).lo = v.lo

\* C11: when ADD, SUB, INCA, DECA, INCX, DECX, INC1-6 or DEC1-6 compute a
\* result whose magnitude does not fit the register (five bytes, two for an
\* index register), step returns Ok, the VM is not halted, overflow is true,
\* and the register holds the low-order magnitude bytes of |result| with the
\* sign of the result.
C11_OverflowIsStatus ==
    [][ /\ (StepCall /\ Fetches /\ Cur.opcode \in {OP_ADD, OP_SUB}
               /\ Cur.field \div 8 <= Cur.field % 8 /\ Cur.field % 8 <= 5
               /\ Cur.index \in 0..6 /\ SpecM \in 0..(MEM_SIZE - 1)
               /\ ~LimbFits(ArithResult))
            => (OverflowOnly /\ HoldsLow5(r_a', ArithResult))
        /\ (StepCall /\ Fetches /\ Cur.opcode \in {OP_MODIFYA, OP_MODIFYX}
               /\ Cur.field \in {0, 1}
               /\ Cur.index \in 0..6 /\ SpecM \in 0..U16_MAX
               /\ ~LimbFits(IncResult6))
            => (OverflowOnly
                /\ HoldsLow5(IF Cur.opcode = OP_MODIFYA THEN r_a' ELSE r_x', IncResult6))
        /\ (StepCall /\ Fetches /\ Cur.opcode \in (OP_MODIFYA + 1)..(OP_MODIFYX - 1)
               /\ Cur.field \in {0, 1}
               /\ Cur.index \in 0..6
               /\ IdxValue(Cur.index) \in (-I16_MAX - 1)..I16_MAX
               /\ SpecM \in (-I16_MAX - 1)..I16_MAX
               /\ Abs(IncResult3) > U16_MAX)
            => (OverflowOnly
                /\ r_in'[Cur.opcode - OP_MODIFYA][0] = SignByte(IncResult3 < 0)
                /\ r_in'[Cur.opcode - OP_MODIFYA][1] = (Abs(IncResult3) % 65536) \div 256
                /\ r_in'[Cur.opcode - OP_MODIFYA][2] = Abs(IncResult3) % 256) ]_vars

\* LDA of the largest negative word at cell 0, then DECA by the address of
\* the data word: overflow is set and rA holds -(DataAddr - 1), the low bytes
C11_Witness ==
    /\ MemAt(mem, 0) = EncodeInstr(DataAddr, 0, 5, OP_LDA)
    /\ MemAt(mem, DataAddr) = W6(NEG, 255, 255, 255, 255, 255)
    /\ Ran(OP_MODIFYA, 1) /\ result = "Ok" /\ fetched.pc = 1
    /\ overflow /\ ~halted
    /\ r_a = W6(NEG, 0, 0, 0, 0, DataAddr - 1)

\* ------------------------------------------------------------------------
\* Properties: products, digit by digit
\* ------------------------------------------------------------------------

\* V of the instruction the next call of step decodes
SpecV == FieldValue(MemAt(mem, SpecM), Cur.field \div 8, Cur.field % 8)

\* the next instruction has a field L:R with 0 <= L <= R <= 5 and reads a
\* memory cell
ReadsIntField ==
    /\ Cur.field \div 8 <= Cur.field % 8 /\ Cur.field % 8 <= 5
    /\ Cur.index \in 0..6 /\ SpecM \in 0..(MEM_SIZE - 1)

\* magnitude byte k (0 = least significant) of a five-byte value
LimbDigit(v, k) ==
    IF k = 0 THEN v.lo % 256
    ELSE IF k = 1 THEN (v.lo \div 256) % 256
    ELSE IF k = 2 THEN v.lo \div 65536
    ELSE IF k = 3 THEN v.hi % 256
    ELSE IF k = 4 THEN v.hi \div 256
    ELSE 0

\* column k of the long multiplication of v by w, with the carry into it
RECURSIVE ProdColumn(_, _, _)
ProdColumn(v, w, k) ==
    LET carry == IF k = 0 THEN 0 ELSE ProdColumn(v, w, k - 1) \div 256
    IN  carry + LimbDigit(v, 0) * LimbDigit(w, k)
              + LimbDigit(v, 1) * LimbDigit(w, k - 1)
              + LimbDigit(v, 2) * LimbDigit(w, k - 2)
              + LimbDigit(v, 3) * LimbDigit(w, k - 3)
              + LimbDigit(v, 4) * LimbDigit(w, k - 4)

\* magnitude byte k (0 = least significant) of the ten bytes rA[1..5] ++ rX[1..5]
PairDigit(a, x, k) == IF k < 5 THEN x[5 - k] ELSE a[10 - k]

\* C12: after an integer MUL the ten bytes rA[1..5] ++ rX[1..5] are
\* |rA| * |V|, the sign bytes of rA and rX are equal and negative exactly
\* when the product is negative, and overflow is as it was (so MUL by 0
\* leaves zero magnitudes, and a product of more than five bytes is held
\* exactly).
C12_Mul ==
    [][ (StepCall /\ Fetches /\ Cur.opcode = OP_MUL /\ ReadsIntField)
        => /\ result' = "Ok"
           /\ \A k \in 0..9 :
                 PairDigit(r_a', r_x', k) = ProdColumn(WordValue(r_a), SpecV, k) % 256
           /\ ProdColumn(WordValue(r_a), SpecV, 9) < 256
           /\ r_a'[0] = r_x'[0]
           /\ r_a'[0] = SignByte(/\ WordValue(r_a).neg # SpecV.neg
                                 /\ ~LimbIsZero(WordValue(r_a)) /\ ~LimbIsZero(SpecV))
           /\ overflow' = overflow ]_vars

\* ENTA 2 at cell 0, then MUL by the largest word: rAX = 0x01FFFFFFFFFE
C12_Witness ==
    /\ MemAt(mem, 0) = EncodeInstr(2, 0, 2, OP_MODIFYA)
    /\ MemAt(mem, DataAddr) = W6(POS, 255, 255, 255, 255, 255)
    /\ Ran(OP_MUL, 5) /\ result = "Ok" /\ fetched.pc = 1
    /\ r_a = W6(POS, 0, 0, 0, 0, 1)
    /\ r_x = W6(POS, 255, 255, 255, 255, 254)
    /\ ~overflow

\* the five magnitude bytes of a full word are zero
ZeroMagnitude(w) == \A i \in 1..5 : w[i] = 0

\* C13: an integer DIV with V = 0 (+0 or -0) returns Ok, sets overflow,
\* leaves the magnitudes of rA and rX zero, does not halt the VM and changes
\* no memory cell.
C13_DivByZero ==
    [][ (StepCall /\ Fetches /\ Cur.opcode = OP_DIV /\ ReadsIntField /\ LimbIsZero(SpecV))
        => /\ result' = "Ok"
           /\ overflow'
           /\ ZeroMagnitude(r_a') /\ ZeroMagnitude(r_x')
           /\ ~halted'
           /\ mem' = mem ]_vars

\* ENTA 3 at cell 0, then DIV by the data word -0
C13_Witness ==
    /\ MemAt(mem, 0) = EncodeInstr(3, 0, 2, OP_MODIFYA)
    /\ MemAt(mem, DataAddr) = W6(NEG, 0, 0, 0, 0, 0)
    /\ Ran(OP_DIV, 5) /\ result = "Ok" /\ fetched.pc = 1
    /\ overflow /\ ~halted
    /\ ZeroMagnitude(r_a) /\ ZeroMagnitude(r_x)

\* C14: after an integer DIV with V # 0 the sign byte of rA is positive
\* exactly when the sign byte of the old rA and the sign of V are the same,
\* also when the dividend is zero, and the sign byte of rX is the sign byte
\* rA had before.
C14_DivSigns ==
    [][ (StepCall /\ Fetches /\ Cur.opcode = OP_DIV /\ ReadsIntField /\ ~LimbIsZero(SpecV))
        => /\ result' = "Ok"
           /\ r_a'[0] = SignByte((r_a[0] # POS) # SpecV.neg)
           /\ r_x'[0] = r_a[0] ]_vars

\* ------------------------------------------------------------------------
\* Properties: loads and stores
\* ------------------------------------------------------------------------

\* the last call of step ran the instruction one cell before pc, it returned
\* Ok, and the next instruction has its address, index and field bytes
FollowsTwin ==
    /\ last_call = "step" /\ result = "Ok"
    /\ fetched.pc = pc - 1
    /\ \A i \in 0..4 : fetched.word[i] = MemAt(mem, pc)[i]

\* C15: LDA M(F) with a field L:R, L <= R <= 5, changes no memory cell, and
\* the STA M(F) that follows it leaves mem[M] and every other cell as they
\* were.
C15_LoadThenStore ==
    [][ /\ (StepCall /\ Fetches /\ Cur.opcode = OP_LDA /\ ReadsIntField)
            => (result' = "Ok" /\ mem' = mem)
        /\ (StepCall /\ Fetches /\ Cur.opcode = OP_STA /\ ReadsIntField
               /\ FollowsTwin /\ fetched.word[5] = OP_LDA)
            => (result' = "Ok" /\ mem' = mem) ]_vars

\* LDA of bytes 1:2 of -(1,2,3,4,5) at cell 0, then STA with the same address
\* and field
C15_Witness ==
    /\ MemAt(mem, 0) = EncodeInstr(DataAddr, 0, 10, OP_LDA)
    /\ Ran(OP_STA, 10) /\ result = "Ok" /\ fetched.pc = 1
    /\ fetched.word = EncodeInstr(DataAddr, 0, 10, OP_STA)
    /\ r_a = W6(POS, 0, 0, 0, 1, 2)
    /\ MemAt(mem, DataAddr) = W6(NEG, 1, 2, 3, 4, 5)

\* every memory cell but cell m is left as it was
OtherCellsSame(m) ==
    \A a \in (DOMAIN mem \cup DOMAIN mem') \ {m} : MemAt(mem', a) = MemAt(mem, a)

\* C16 as stated: STZ with any F in 0..=5 leaves the target cell equal to
\* the +0 word [0,0,0,0,0,0].
C16_StzLeavesZeroWord ==
    [][ (StepCall /\ Fetches /\ Cur.opcode = OP_STZ /\ Cur.field \in 0..5
            /\ Cur.index \in 0..6 /\ SpecM \in 0..(MEM_SIZE - 1))
        => (result' = "Ok" /\ MemAt(mem', SpecM) = ZeroWord) ]_vars

\* C16, amended: STZ with a field L:R, L <= R <= 5 (F in 0..=5 is 0:F),
\* returns Ok, makes bytes L..R of the target cell zero, the sign byte
\* positive when L = 0, and leaves the other bytes of the cell and every
\* other cell as they were; the cell is the +0 word for F = 0:5.
C16_StzZeroesField ==
    [][ (StepCall /\ Fetches /\ Cur.opcode = OP_STZ /\ ReadsIntField)
        => /\ result' = "Ok"
           /\ \A i \in 0..5 :
                 MemAt(mem', SpecM)[i] =
                     IF Cur.field \div 8 <= i /\ i <= Cur.field % 8 THEN 0
                     ELSE MemAt(mem, SpecM)[i]
           /\ (Cur.field = 5) => MemAt(mem', SpecM) = ZeroWord
           /\ OtherCellsSame(SpecM) ]_vars

\* STZ with F = 2 on the data word -(1,2,3,4,5) left +(0,0,3,4,5)
C16_Witness ==
    /\ Ran(OP_STZ, 2) /\ result = "Ok" /\ fetched.pc = 1
    /\ fetched.word = EncodeInstr(DataAddr, 0, 2, OP_STZ)
    /\ MemAt(mem, DataAddr) = W6(POS, 0, 0, 3, 4, 5)

\* byte i of a register loaded with the field l:r of cell: bytes
\* max(l, 1)..r right-aligned in bytes 1..5, zero to their left
LoadedByte(cell, l, r, i) ==
    IF 5 - i < r - (IF l = 0 THEN 1 ELSE l) + 1 THEN cell[r - (5 - i)] ELSE 0

\* the sign byte of a register loaded with the field l:r of cell, negated
\* or not
LoadedSign(cell, l, negate) ==
    IF l # 0 THEN POS
    ELSE IF ~negate THEN cell[0]
    ELSE IF cell[0] = POS THEN NEG ELSE POS

IntLimbs(k) == [neg |-> k < 0, hi |-> 0, lo |-> Abs(k)]

\* the value the modify instruction the next call of step decodes is to
\* leave in its register: M, -M, or the register plus or minus M
ModifyResult(reg) ==
    IF Cur.field = 2 THEN IntLimbs(SpecM)
    ELSE IF Cur.field = 3 THEN IntLimbs(-SpecM)
    ELSE IF Cur.field = 0 THEN LimbSum(reg, IntLimbs(SpecM))
    ELSE LimbSum(reg, IntLimbs(-SpecM))

\* a half word as a signed value
HalfValue(w) == Limbs(w[0] # POS, 0, 0, 0, w[1], w[2])

\* the value fits two magnitude bytes
HalfFits(v) == v.hi = 0 /\ v.lo <= U16_MAX

\* C18: INC, DEC, ENT and ENN of rA, rX and rI1-6 take every M = A +
\* value(rI[I]) that fits a signed 16-bit integer, negative M and M >= 4000
\* included: step returns Ok (never InvalidAddress) and the register holds M
\* (ENT), -M (ENN), or its old value plus M (INC) or minus M (DEC) when that
\* fits the register.
C18_ImmediateNotRangeChecked ==
    [][ (StepCall /\ Fetches /\ Cur.opcode \in OP_MODIFYA..OP_MODIFYX
            /\ Cur.field \in 0..3 /\ Cur.index \in 0..6
            /\ SpecM \in (-I16_MAX - 1)..I16_MAX)
        => /\ result' = "Ok"
           /\ (Cur.opcode = OP_MODIFYA /\ LimbFits(ModifyResult(WordValue(r_a))))
                 => LimbSame(WordValue(r_a'), ModifyResult(WordValue(r_a)))
           /\ (Cur.opcode = OP_MODIFYX /\ LimbFits(ModifyResult(WordValue(r_x))))
                 => LimbSame(WordValue(r_x'), ModifyResult(WordValue(r_x)))
           /\ (Cur.opcode \in (OP_MODIFYA + 1)..(OP_MODIFYX - 1)
                  /\ HalfFits(ModifyResult(HalfValue(r_in[Cur.opcode - OP_MODIFYA]))))
                 => LimbSame(HalfValue(r_in'[Cur.opcode - OP_MODIFYA]),
                             ModifyResult(HalfValue(r_in[Cur.opcode - OP_MODIFYA]))) ]_vars

\* ------------------------------------------------------------------------
\* Properties: comparison
\* ------------------------------------------------------------------------

\* the register the compare instruction the next call of step decodes
\* reads, as a full word: an index register is [sign, 0, 0, 0, b1, b2]
ComparedWord ==
    IF Cur.opcode = OP_CMPA THEN r_a
    ELSE IF Cur.opcode = OP_CMPX THEN r_x
    ELSE W6(r_in[Cur.opcode - OP_CMPA][0], 0, 0, 0,
            r_in[Cur.opcode - OP_CMPA][1], r_in[Cur.opcode - OP_CMPA][2])

\* the signed comparison of two values, +0 and -0 being equal
LimbCompare(v, w) ==
    IF LimbSame(v, w) THEN "Equal"
    ELSE IF v.neg # w.neg THEN (IF v.neg THEN "Less" ELSE "Greater")
    ELSE IF v.neg THEN (IF LimbLess(w, v) THEN "Less" ELSE "Greater")
    ELSE (IF LimbLess(v, w) THEN "Less" ELSE "Greater")

\* C19: CMPA, CMPX and CMP1-6 with a byte-range field L:R, L <= R <= 5, set
\* the comparison indicator to Less, Equal or Greater by the signed comparison
\* of bytes L:R of the register (an index register padded to a full word)
\* with bytes L:R of mem[M], +0 and -0 being equal; registers, memory, the
\* overflow toggle and rJ stay as they are.
C19_Compare ==
    [][ (StepCall /\ Fetches /\ Cur.opcode \in OP_CMPA..OP_CMPX /\ ReadsIntField)
        => /\ result' = "Ok"
           /\ comp' = LimbCompare(FieldValue(ComparedWord, Cur.field \div 8, Cur.field % 8),
                                  SpecV)
           /\ UNCHANGED <<r_a, r_x, r_in, r_j, overflow, mem>> ]_vars

\* ENN1 5 at cell 0, then CMP1 with the field 0:5 of -(1,2,3,4,5): -5 is the
\* greater
C19_Witness ==
    /\ MemAt(mem, 0) = EncodeInstr(5, 0, 3, OP_MODIFYA + 1)
    /\ MemAt(mem, DataAddr) = W6(NEG, 1, 2, 3, 4, 5)
    /\ Ran(OP_CMPA + 1, 5) /\ result = "Ok" /\ fetched.pc = 1
    /\ comp = "Greater"

\* ------------------------------------------------------------------------
\* Properties: fields
\* ------------------------------------------------------------------------

\* the opcodes whose field is a byte range L:R: integer arithmetic, loads,
\* stores and compares
ByteRangeOpcodes ==
    OP_ADD..OP_DIV \cup OP_LDA..OP_LDXN \cup OP_STA..OP_STZ \cup OP_CMPA..OP_CMPX

\* the opcodes whose field 7 selects the binary32 variant
FloatOpcodes == {OP_ADD, OP_SUB, OP_MUL, OP_DIV, OP_CMPA, OP_CMPX}

\* the field f is not one of opcode c: past the sub-selectors of its family,
\* no device slot, or no byte range of a word
FieldNotOf(c, f) ==
    \/ c = OP_SPECIAL /\ f > 12
    \/ c = OP_SHIFT /\ f > 7
    \/ c = OP_JMP /\ f > 11
    \/ c \in {OP_JA, OP_JX} /\ f > 7
    \/ c \in (OP_JA + 1)..(OP_JX - 1) /\ f > 5
    \/ c \in OP_MODIFYA..OP_MODIFYX /\ f > 3
    \/ c \in IoOpcodes /\ f > 20
    \/ /\ c \in ByteRangeOpcodes
       /\ f \div 8 > f % 8 \/ f % 8 > 5
       /\ ~(c \in FloatOpcodes /\ f = 7)

\* C20: a step whose field is not valid for its opcode (with a valid index
\* and an effective address in memory) returns Err(InvalidField) and leaves
\* the machine halted: Special F > 12, Shift F > 7, JMP F > 11, JA/JX F > 7,
\* J1-6 F > 5, INC/DEC/ENT/ENN F > 3, a device opcode with F > 20, and a
\* load, store, integer arithmetic or compare whose F is L > R or R > 5.
C20_InvalidField ==
    [][ (StepCall /\ Fetches /\ FieldNotOf(Cur.opcode, Cur.field)
            /\ Cur.index \in 0..6 /\ SpecM \in 0..(MEM_SIZE - 1))
        => result' = "InvalidField" /\ halted' ]_vars

\* ------------------------------------------------------------------------
\* Properties: devices
\* ------------------------------------------------------------------------

\* the next call of step decodes a device instruction with a valid index and
\* an effective address in memory
DeviceStep ==
    /\ StepCall /\ Fetches /\ Cur.opcode \in IoOpcodes
    /\ Cur.index \in 0..6 /\ SpecM \in 0..(MEM_SIZE - 1)

BlockInMemory ==
    /\ SpecM \in 0..(MEM_SIZE - 1)
    /\ SpecM + io_devices[Cur.field].block_size \in 0..(MEM_SIZE - 1)

\* every cell outside the block of b words at M is as it was
OutsideBlockSame(m, b) ==
    \A a \in (DOMAIN mem \cup DOMAIN mem') \ (m..(m + b - 1)) : MemAt(mem', a) = MemAt(mem, a)

\* C22: IN and OUT on an installed device with block size b return
\* Err(InvalidAddress) without calling the device when M or M + b is outside
\* [0, 4000); otherwise read (IN) or write (OUT) is called exactly once with
\* the b words mem[M..M+b), IN changes no cell outside them and OUT changes
\* no cell.
C22_InOutBlock ==
    [][ (StepCall /\ Fetches /\ Cur.opcode \in {OP_IN, OP_OUT} /\ Cur.index \in 0..6
            /\ Cur.field < NUM_DEVICES /\ io_devices[Cur.field].present)
        => LET b == io_devices[Cur.field].block_size
           IN  IF ~BlockInMemory
               THEN result' = "InvalidAddress" /\ dev_calls' = <<>> /\ mem' = mem
               ELSE /\ Len(dev_calls') = 1
                    /\ dev_calls'[1].method = (IF Cur.opcode = OP_IN THEN "read" ELSE "write")
                    /\ dev_calls'[1].arg = SpecM
                    /\ dev_calls'[1].len = b
                    /\ result' = (IF dev_calls'[1].ans = "Ok" THEN "Ok" ELSE "IOError")
                    /\ IF Cur.opcode = OP_IN THEN OutsideBlockSame(SpecM, b) ELSE mem' = mem ]_vars

\* C23: JBUS on an installed device jumps to M exactly when is_busy answers
\* true, and JRED exactly when is_ready answers true; otherwise the next
\* instruction follows, so a JBUS that points at itself is left by the first
\* step at which the device is not busy; a failing status call is returned as
\* Err(IOError) with the VM halted.
C23_DeviceJump ==
    [][ (DeviceStep /\ Cur.opcode \in {OP_JBUS, OP_JRED}
            /\ Cur.field < NUM_DEVICES /\ io_devices[Cur.field].present)
        => /\ Len(dev_calls') = 1
           /\ dev_calls'[1].method = (IF Cur.opcode = OP_JBUS THEN "is_busy" ELSE "is_ready")
           /\ dev_calls'[1].ans = "Yes" => (result' = "Ok" /\ ~halted' /\ pc' = SpecM)
           /\ dev_calls'[1].ans = "No" => (result' = "Ok" /\ ~halted' /\ pc' = pc + 1)
           /\ dev_calls'[1].ans = "Err" => (result' = "IOError" /\ halted')
           /\ (SpecM = pc /\ Cur.opcode = OP_JBUS) => (pc' = pc <=> dev_calls'[1].ans = "Yes") ]_vars

\* JBUS 1(18) at cell 1 found the printer busy, jumped to itself (rJ = 2),
\* and at the next step found it not busy and went on to cell 2
C23_Witness ==
    /\ Ran(OP_JBUS, 18) /\ fetched.pc = 1 /\ fetched.word[2] = 1 /\ fetched.word[3] = 0
    /\ r_j[2] = 2 /\ steps = 2
    /\ dev_calls # <<>> /\ dev_calls[1].ans = "No"
    /\ result = "Ok" /\ pc = 2 /\ ~halted

\* ------------------------------------------------------------------------
\* Properties: decoding
\* ------------------------------------------------------------------------

\* the address a word holds: the magnitude of bytes 1..2 with the sign of
\* byte 0
WordAddress(w) == (IF w[0] = POS THEN 1 ELSE -1) * (w[1] * 256 + w[2])

\* C24: a fetched word whose byte 5 is in 64..=255 makes step return
\* Err(IllegalInstruction) and halt with pc at the offending word and
\* registers, flags and memory unchanged; a word whose byte 5 is in 0..=63
\* decodes to an instruction with that opcode, I = byte 3, F = byte 4 and,
\* when the magnitude of bytes 1..2 fits a signed 16-bit integer, A = that
\* magnitude with the sign of byte 0.
C24_Decode ==
    [][ (StepCall /\ ~halted /\ pc < MEM_SIZE)
        => LET w == MemAt(mem, pc)
           IN  IF w[5] > OPCODE_MAX
               THEN /\ result' = "IllegalInstruction"
                    /\ halted' /\ pc' = pc
                    /\ SameRegsMem
               ELSE /\ Cur.kind = "ok" /\ result' # "IllegalInstruction"
                    /\ Cur.opcode = w[5] /\ Cur.index = w[3] /\ Cur.field = w[4]
                    /\ w[1] * 256 + w[2] <= I16_MAX => Cur.addr = WordAddress(w) ]_vars

\* ------------------------------------------------------------------------
\* Properties: conversions
\* ------------------------------------------------------------------------

\* |v| < 2^(8 * k): all but the last k magnitude bytes are zero
FitsBytes(v, k) == \A i \in 0..(7 - k) : v.mag[i] = 0

\* C25: for every 64-bit integer n with |n| < 2^40, FullWord::from_i64(n)
\* reports no overflow and to_i64 of the word returns (n, false).
C25_RoundTrip ==
    (conv.len = 6 /\ FitsBytes(host_val, 5))
        => /\ ~conv.panic /\ ~conv.overflow
           /\ conv.back = host_val /\ ~conv.back_overflow

\* -(2^40 - 1) made the word [-,255,255,255,255,255] and came back
C25_Witness ==
    /\ conv.len = 6 /\ ~conv.panic
    /\ host_val.neg /\ \A i \in 0..7 : host_val.mag[i] = (IF i < 3 THEN 0 ELSE 255)
    /\ conv.word = W6(NEG, 255, 255, 255, 255, 255)
    /\ conv.back = host_val

\* C26: for every 64-bit integer n with |n| >= 2^40, the most negative one
\* included, FullWord::from_i64(n) returns a word and overflow = true; so
\* does HalfWord::from_i64(n) for |n| >= 2^16.
C26_OverflowReported ==
    (conv.len # 0 /\ ~FitsBytes(host_val, conv.len - 1))
        => ~conv.panic /\ conv.overflow /\ DOMAIN conv.word = 0..(conv.len - 1)

\* ------------------------------------------------------------------------
\* Properties: life cycle
\* ------------------------------------------------------------------------

\* C27: reset sets rA, rX, rI1..rI6 and rJ to +0, pc to 0, overflow to false
\* and the comparison indicator to Equal, and leaves every memory cell, every
\* device slot and the halted flag as they are.
C27_Reset ==
    [][ last_call' = "reset"
        => /\ r_a' = W6(POS, 0, 0, 0, 0, 0) /\ r_x' = W6(POS, 0, 0, 0, 0, 0)
           /\ \A i \in 1..6 : r_in'[i] = [k \in 0..2 |-> IF k = 0 THEN POS ELSE 0]
           /\ r_j' = [k \in 0..2 |-> IF k = 0 THEN POS ELSE 0]
           /\ pc' = 0 /\ ~overflow' /\ comp' = "Equal"
           /\ mem' = mem /\ io_devices' = io_devices /\ halted' = halted ]_vars

\* reset after LD1 of the data word -5 ran at cell 0: rI1 is +0 again, the
\* VM still runs
C27_Witness ==
    /\ last_call = "reset" /\ steps = 1 /\ result = "Ok"
    /\ fetched = [pc |-> 0, word |-> EncodeInstr(DataAddr, 0, 5, OP_LDA + 1)]
    /\ MemAt(mem, DataAddr) = W6(NEG, 0, 0, 0, 0, 5)
    /\ r_in[1] = [k \in 0..2 |-> 0] /\ pc = 0 /\ ~halted

\* ------------------------------------------------------------------------
\* Properties: shifts
\* ------------------------------------------------------------------------

\* the next call of step decodes a shift with one of the fields fs, a valid
\* index and a count M >= 0
ShiftStep(fs) ==
    /\ StepCall /\ Fetches /\ Cur.opcode = OP_SHIFT /\ Cur.field \in fs
    /\ Cur.index \in 0..6 /\ SpecM >= 0

\* byte i of n magnitude bytes moved left by m positions with zero fill
LeftByte(bytes, n, m, i) == IF i + m <= n THEN bytes[i + m] ELSE 0

\* byte i of magnitude bytes moved right by m positions with zero fill
RightByte(bytes, m, i) == IF i - m >= 1 THEN bytes[i - m] ELSE 0

\* C28: SLA and SRA with a count M >= 0 move the five magnitude bytes of rA
\* left or right by M byte positions with zero fill, whatever the sign of rA
\* (M = 0 leaves rA as it is, M >= 5 leaves a zero magnitude); the sign bytes
\* of rA and rX and the magnitude of rX are unchanged.
C28_ShiftA ==
    [][ ShiftStep({0, 1})
        => /\ result' = "Ok"
           /\ \A i \in 1..5 :
                 r_a'[i] = (IF Cur.field = 0 THEN LeftByte(r_a, 5, SpecM, i)
                            ELSE RightByte(r_a, SpecM, i))
           /\ r_a'[0] = r_a[0]
           /\ r_x' = r_x ]_vars

\* the ten magnitude bytes rA[1..5] ++ rX[1..5]
TenOf(a, x) == [i \in 1..10 |-> IF i <= 5 THEN a[i] ELSE x[i - 5]]

\* bit j (0 the least significant of 80) of ten magnitude bytes, 0 outside
TenBit(ten, j) ==
    IF j < 0 \/ j > 79 THEN 0 ELSE (ten[10 - (j \div 8)] \div (2 ^ (j % 8))) % 2

\* byte i of ten magnitude bytes with every bit moved up by k positions (down
\* for a negative k), zero fill
BitShiftedByte(ten, k, i) ==
    LET bit(b) == TenBit(ten, 8 * (10 - i) + b - k) * (2 ^ b)
    IN  bit(0) + bit(1) + bit(2) + bit(3) + bit(4) + bit(5) + bit(6) + bit(7)

\* byte i of rA ++ rX after the shift the next call of step decodes
ShiftedTenByte(i) ==
    LET ten == TenOf(r_a, r_x)
    IN  IF Cur.field = 2 THEN LeftByte(ten, 10, SpecM, i)
        ELSE IF Cur.field = 3 THEN RightByte(ten, SpecM, i)
        ELSE IF Cur.field = 6 THEN BitShiftedByte(ten, SpecM, i)
        ELSE BitShiftedByte(ten, -SpecM, i)

\* C29: SLAX and SRAX shift the ten magnitude bytes rA[1..5] ++ rX[1..5] by M
\* bytes, SLB and SRB by M bits, with zero fill and what leaves either end
\* lost, for every count M >= 0 (10 bytes or 80 bits and more leave both
\* magnitudes zero); both sign bytes are unchanged.
C29_ShiftAX ==
    [][ ShiftStep({2, 3, 6, 7})
        => /\ result' = "Ok"
           /\ \A i \in 1..10 : TenOf(r_a', r_x')[i] = ShiftedTenByte(i)
           /\ r_a'[0] = r_a[0] /\ r_x'[0] = r_x[0] ]_vars

\* byte i of ten magnitude bytes rotated left by k positions
RotatedByte(ten, k, i) == ten[((i - 1 + k) % 10) + 1]

\* SLC M at cell 0 and SRC M at cell 1, same address and index, have both run
SlcThenSrc ==
    /\ steps = 2 /\ result = "Ok" /\ fetched.pc = 1
    /\ MemAt(mem, 0)[5] = OP_SHIFT /\ MemAt(mem, 0)[4] = 4
    /\ fetched.word[5] = OP_SHIFT /\ fetched.word[4] = 5
    /\ \A i \in 0..3 : fetched.word[i] = MemAt(mem, 0)[i]

\* C30: SLC and SRC rotate the ten magnitude bytes rA[1..5] ++ rX[1..5] by
\* M mod 10 positions, left for SLC and right for SRC, losing no byte: a
\* multiple of 10 changes nothing, the sign bytes are unchanged, and SLC M
\* followed by SRC M gives back the rA and rX the program started with.
C30_Rotate ==
    /\ [][ ShiftStep({4, 5})
           => /\ result' = "Ok"
              /\ \A i \in 1..10 :
                    TenOf(r_a', r_x')[i] =
                       RotatedByte(TenOf(r_a, r_x),
                                   IF Cur.field = 4 THEN SpecM % 10 ELSE 10 - (SpecM % 10), i)
              /\ (SpecM % 10 = 0) => (r_a' = r_a /\ r_x' = r_x)
              /\ r_a'[0] = r_a[0] /\ r_x'[0] = r_x[0] ]_vars
    /\ [](SlcThenSrc => (r_a = MemAt(mem, DataAddr) /\ r_x = MemAt(mem, DataAddr + 1)))

\* SLC 13 at cell 0 and SRC 13 at cell 1 have both run on a negative rA
C30_Witness ==
    /\ SlcThenSrc /\ fetched.word[2] = 13
    /\ r_a = W6(NEG, 129, 2, 3, 4, 5) /\ r_x = W6(POS, 6, 7, 8, 9, 255)

\* ------------------------------------------------------------------------
\* Properties: CHAR and NUM
\* ------------------------------------------------------------------------

\* a magnitude as two limbs of five decimal digits, one more byte taken in
DecStep(d, b) ==
    LET low == d.lo * 256 + b
    IN  [hi |-> d.hi * 256 + (low \div 100000), lo |-> low % 100000]

\* the magnitude of a full word as two limbs of five decimal digits
DecOf(w) ==
    DecStep(DecStep(DecStep(DecStep(DecStep([hi |-> 0, lo |-> 0], w[1]), w[2]), w[3]), w[4]),
            w[5])

\* decimal digit k (0 = least significant) of two decimal limbs
DecDigit(d, k) ==
    IF k < 5 THEN (d.lo \div (10 ^ k)) % 10 ELSE (d.hi \div (10 ^ (k - 5))) % 10

\* CHAR at cell 0 and NUM at cell 1 have both run
CharThenNum ==
    /\ steps = 2 /\ result = "Ok" /\ fetched.pc = 1
    /\ MemAt(mem, 0)[5] = OP_SPECIAL /\ MemAt(mem, 0)[4] = 1
    /\ fetched.word[5] = OP_SPECIAL /\ fetched.word[4] = 0

\* C31: CHAR writes the ten least significant decimal digits of |rA|, each as
\* 30 + digit, into rA[1..5] ++ rX[1..5], most significant first, and leaves
\* both sign bytes as they were; a NUM run right after it leaves |rA| mod
\* 10^10 as the magnitude of rA, the sign of rA and all of rX as CHAR left
\* them, and overflow not set.
C31_CharNum ==
    /\ [][ (StepCall /\ Fetches /\ Cur.opcode = OP_SPECIAL /\ Cur.field = 1)
           => /\ result' = "Ok"
              /\ \A k \in 0..9 : PairDigit(r_a', r_x', k) = 30 + DecDigit(DecOf(r_a), k)
              /\ r_a'[0] = r_a[0] /\ r_x'[0] = r_x[0] ]_vars
    /\ [](CharThenNum
          => LET orig == DecOf(MemAt(mem, DataAddr))
             IN  /\ DecOf(r_a) = [hi |-> orig.hi % 100000, lo |-> orig.lo]
                 /\ (orig.hi < 100000 => \A i \in 1..5 : r_a[i] = MemAt(mem, DataAddr)[i])
                 /\ r_a[0] = MemAt(mem, DataAddr)[0]
                 /\ r_x[0] = MemAt(mem, DataAddr + 1)[0]
                 /\ \A i \in 1..5 : r_x[i] = 30 + DecDigit(orig, 5 - i)
                 /\ ~overflow)

\* CHAR and then NUM have run on rA = -(2^40 - 1), which has thirteen digits
C31_Witness ==
    /\ CharThenNum
    /\ MemAt(mem, DataAddr) = W6(NEG, 255, 255, 255, 255, 255)
    /\ r_a = W6(NEG, 2, 54, 239, 235, 255)
    /\ r_x[5] = 35

\* ------------------------------------------------------------------------
\* Properties: registers that never change sign
\* ------------------------------------------------------------------------

\* C32: in every state reached from a new VM by reset, restart and step the
\* sign byte of rJ is 0 (rJ is positive) and the slot rI0 is +0.
C32_JAndI0 ==
    /\ r_j[0] = POS
    /\ r_in[0] = [i \in 0..2 |-> 0]

\* LD1 has loaded -5 and a JMP has then saved its return address in rJ
C32_Witness ==
    /\ Ran(OP_JMP, 0) /\ result = "Ok" /\ steps = 2
    /\ r_in[1] = [i \in 0..2 |-> IF i = 0 THEN NEG ELSE IF i = 1 THEN 0 ELSE 5]
    /\ r_j[2] = 2 /\ pc = DataAddr

\* ------------------------------------------------------------------------
\* Properties: pc and the end of memory
\* ------------------------------------------------------------------------

\* step returned Err(_)
ReturnedError == result \notin {"Ok", "Panic", "None"}

\* C33: a call of step on a running VM whose pc is outside 0 .. 3999 fetches
\* nothing and returns an error, and a taken jump to a target >= 4000 returns
\* an error: in every state reached by restart and step, pc is in 0 .. 4000.
C33_PcInMemory ==
    /\ [][ (StepCall /\ ~halted /\ pc >= MEM_SIZE) => (ReturnedError' /\ fetched' = NoFetch) ]_vars
    /\ [][ (StepCall /\ Fetches /\ IsJump /\ Cur.index \in 0..6 /\ JumpTaken /\ SpecM >= MEM_SIZE)
           => ReturnedError' ]_vars
    /\ [](pc \in 0..MEM_SIZE)

\* ------------------------------------------------------------------------
\* Properties: register jumps
\* ------------------------------------------------------------------------

\* the register the next instruction (JA, J1 .. J6, JX) tests
JumpReg ==
    IF Cur.opcode = OP_JA THEN r_a
    ELSE IF Cur.opcode = OP_JX THEN r_x
    ELSE r_in[Cur.opcode - OP_JA]

\* the magnitude bytes of a register are all zero
RegIsZero(reg) == \A i \in (DOMAIN reg) \ {0} : reg[i] = 0

\* the condition of field f on the integer value of a register, -0 being zero
RegCondition(reg, f) ==
    LET zero == RegIsZero(reg)
        negative == ~zero /\ reg[0] = NEG
        positive == ~zero /\ reg[0] = POS
        last == reg[WordLen(reg) - 1]
    IN  IF f = 0 THEN negative
        ELSE IF f = 1 THEN zero
        ELSE IF f = 2 THEN positive
        ELSE IF f = 3 THEN ~negative
        ELSE IF f = 4 THEN ~zero
        ELSE IF f = 5 THEN ~positive
        ELSE IF f = 6 THEN last % 2 = 0
        ELSE last % 2 = 1

\* the next instruction is a register jump with a field it has
RegJumpStep ==
    /\ StepCall /\ Fetches /\ Cur.opcode \in OP_JA..OP_JX
    /\ Cur.field \in (IF Cur.opcode \in {OP_JA, OP_JX} THEN 0..7 ELSE 0..5)
    /\ Cur.index \in 0..6 /\ SpecM \in 0..U16_MAX

\* C34: JA, JX and J1 .. J6 with F = 0 .. 5 are taken exactly when the value
\* of the register is < 0, = 0, > 0, >= 0, # 0, <= 0, with -0 counting as
\* zero; JA and JX with F = 6, 7 exactly when it is even, odd; a taken jump
\* leaves pc = M and rJ = the address after the jump, one not taken leaves
\* rJ as it was.
C34_RegisterJumps ==
    [][ RegJumpStep
        => /\ result' = "Ok"
           /\ IF RegCondition(JumpReg, Cur.field)
              THEN pc' = SpecM /\ r_j' = [i \in 0..2 |-> IF i = 0 THEN POS
                                                       ELSE IF i = 1 THEN (pc + 1) \div 256
                                                       ELSE (pc + 1) % 256]
              ELSE pc' = pc + 1 /\ r_j' = r_j ]_vars

\* JAZ was taken on rA = -0
C34_Witness ==
    /\ Ran(OP_JA, 1) /\ result = "Ok" /\ fetched.pc = 1
    /\ r_a = W6(NEG, 0, 0, 0, 0, 0)
    /\ pc = DataAddr /\ r_j[2] = 2

\* ------------------------------------------------------------------------
\* Properties: subroutine linkage
\* ------------------------------------------------------------------------

\* the last call was a step that ran a JMP (F = 0), and the next call is a
\* step that decodes STJ with field 0:2 into a cell of memory
JmpThenStj ==
    /\ Ran(OP_JMP, 0) /\ result = "Ok"
    /\ StepCall /\ Fetches /\ Cur.opcode = OP_STJ /\ Cur.field = 2
    /\ Cur.index \in 0..6 /\ SpecM \in 0..(MEM_SIZE - 1)

\* C35: when a JMP fetched at p was taken and the next instruction run is
\* STJ X with field 0:2, then afterwards bytes 0..2 of mem[X] are
\* [+, high(p + 1), low(p + 1)] and bytes 3..5 are as before, so that a jump
\* stored at X has the address p + 1; no other cell changes.
C35_Linkage ==
    [][ JmpThenStj
        => /\ result' = "Ok"
           /\ MemAt(mem', SpecM)[0] = POS
           /\ MemAt(mem', SpecM)[1] = (fetched.pc + 1) \div 256
           /\ MemAt(mem', SpecM)[2] = (fetched.pc + 1) % 256
           /\ \A i \in 3..5 : MemAt(mem', SpecM)[i] = MemAt(mem, SpecM)[i]
           /\ WordAddress(MemAt(mem', SpecM)) = fetched.pc + 1
           /\ OtherCellsSame(SpecM) ]_vars

\* the JMP at 767 was taken and STJ 0:2 has made the negative exit word a
\* jump to 768
C35_Witness ==
    /\ Ran(OP_STJ, 2) /\ result = "Ok" /\ fetched.pc = 1
    /\ MemAt(mem, 767)[5] = OP_JMP /\ MemAt(mem, 767)[4] = 0
    /\ MemAt(mem, DataAddr) = W6(POS, 3, 0, 3, 7, OP_JMP)
    /\ r_j[1] = 3 /\ r_j[2] = 0

\* ------------------------------------------------------------------------
\* Properties: quotient and remainder
\* ------------------------------------------------------------------------

\* column k of q * v + r, with the carry into it
RECURSIVE DivColumn(_, _, _, _)
DivColumn(q, v, r, k) ==
    LET carry == IF k = 0 THEN 0 ELSE DivColumn(q, v, r, k - 1) \div 256
    IN  carry + LimbDigit(r, k)
              + LimbDigit(q, 0) * LimbDigit(v, k)
              + LimbDigit(q, 1) * LimbDigit(v, k - 1)
              + LimbDigit(q, 2) * LimbDigit(v, k - 2)
              + LimbDigit(q, 3) * LimbDigit(v, k - 3)
              + LimbDigit(q, 4) * LimbDigit(v, k - 4)

\* C36: an integer DIV with V # 0 divides D, the ten magnitude bytes rA[1..5]
\* ++ rX[1..5].  When floor(D / |V|) fits five bytes, that is when |rA| <
\* |V|, the magnitudes of rA and rX become q and r with D = q * |V| + r and
\* r < |V|, and the overflow toggle is not touched; when it does not,
\* overflow is set; the step returns Ok in both cases.
C36_DivQuotient ==
    [][ (StepCall /\ Fetches /\ Cur.opcode = OP_DIV /\ ReadsIntField /\ ~LimbIsZero(SpecV))
        => /\ result' = "Ok"
           /\ IF LimbLess(WordValue(r_a), SpecV)
              THEN /\ \A k \in 0..9 :
                         PairDigit(r_a, r_x, k)
                            = DivColumn(WordValue(r_a'), SpecV, WordValue(r_x'), k) % 256
                   /\ DivColumn(WordValue(r_a'), SpecV, WordValue(r_x'), 9) < 256
                   /\ LimbLess(WordValue(r_x'), SpecV)
                   /\ overflow' = overflow
              ELSE overflow' ]_vars

\* 0x0102030405_06070809FF divided by 2^40 - 1 leaves 0x0102030405 and
\* 0x07090B0E04
C36_Witness ==
    /\ Ran(OP_DIV, 5) /\ result = "Ok" /\ fetched.pc = 0 /\ ~overflow
    /\ MemAt(mem, DataAddr) = W6(NEG, 1, 2, 3, 4, 5)
    /\ MemAt(mem, DataAddr + 1) = W6(POS, 6, 7, 8, 9, 255)
    /\ MemAt(mem, DataAddr + 2) = W6(POS, 255, 255, 255, 255, 255)
    /\ r_a = W6(NEG, 1, 2, 3, 4, 5)
    /\ r_x = W6(NEG, 7, 9, 11, 14, 4)

\* ------------------------------------------------------------------------
\* Properties: what a step may change in memory
\* ------------------------------------------------------------------------

\* byte i of the cell at M is changed by the transition
ByteChanged(i) == MemAt(mem', SpecM)[i] # MemAt(mem, SpecM)[i]

\* C37: a step changes memory only if its opcode is one of STA, ST1 .. ST6,
\* STX, STJ, STZ, or MOVE, or IN; a step of the store family with field L:R
\* changes at most bytes L..R of the one cell mem[M]; a step that returns an
\* error other than a device's leaves every cell as it was; and no step
\* changes the device table.
C37_MemoryFrame ==
    [][ StepCall
        => /\ io_devices' = io_devices
           /\ mem' # mem => (Fetches /\ Cur.opcode \in (OP_STA..OP_STZ) \cup {OP_MOVE, OP_IN})
           /\ (mem' # mem /\ Cur.opcode \in OP_STA..OP_STZ)
                 => /\ Cur.index \in 0..6
                    /\ OtherCellsSame(SpecM)
                    /\ \A i \in 0..5 :
                          ByteChanged(i) => (Cur.field \div 8 <= i /\ i <= Cur.field % 8)
           /\ (ReturnedError' /\ result' # "IOError") => mem' = mem ]_vars

\* STZ with field 1:5 has zeroed byte 5 of the data word -5 and left its sign
C37_Witness ==
    /\ Ran(OP_STZ, 13) /\ result = "Ok" /\ fetched.pc = 1
    /\ fetched.word[2] = DataAddr
    /\ MemAt(mem, DataAddr) = W6(NEG, 0, 0, 0, 0, 0)

\* ------------------------------------------------------------------------
\* Properties: NOT, AND, OR, XOR
\* ------------------------------------------------------------------------

\* bit j of a byte
ByteBit(a, j) == (a \div (2 ^ j)) % 2

\* the bitwise AND of two bytes
ByteAnd(a, b) ==
    LET bit(j) == ByteBit(a, j) * ByteBit(b, j) * (2 ^ j)
    IN  bit(0) + bit(1) + bit(2) + bit(3) + bit(4) + bit(5) + bit(6) + bit(7)

\* AND (F = 10), OR (F = 11) or XOR (F = 12) of two bytes
ByteCombine(f, a, b) ==
    IF f = 10 THEN ByteAnd(a, b)
    ELSE IF f = 11 THEN a + b - ByteAnd(a, b)
    ELSE a + b - 2 * ByteAnd(a, b)

\* the instructions at cells 0 and 1 are both Special with field f, with the
\* same address and index, and both have run
SpecialTwice(f) ==
    /\ steps = 2 /\ result = "Ok" /\ fetched.pc = 1
    /\ fetched.word[5] = OP_SPECIAL /\ fetched.word[4] = f
    /\ fetched.word = MemAt(mem, 0)

\* C38: NOT flips the sign of rA and complements its five magnitude bytes;
\* AND, OR and XOR combine all six bytes of rA, the sign byte too, bytewise
\* with mem[M] and leave the result in rA and memory as it was; XOR twice
\* with the same cell, and NOT twice on a word whose sign byte is 0 or 1,
\* give rA back.
C38_Bitwise ==
    /\ [][ (StepCall /\ Fetches /\ Cur.opcode = OP_SPECIAL /\ Cur.field = 9)
           => /\ result' = "Ok"
              /\ r_a'[0] = (IF r_a[0] = POS THEN NEG ELSE POS)
              /\ \A i \in 1..5 : r_a'[i] = 255 - r_a[i]
              /\ mem' = mem /\ r_x' = r_x ]_vars
    /\ [][ (StepCall /\ Fetches /\ Cur.opcode = OP_SPECIAL /\ Cur.field \in 10..12
               /\ Cur.index \in 0..6 /\ SpecM \in 0..(MEM_SIZE - 1))
           => /\ result' = "Ok"
              /\ \A i \in 0..5 : r_a'[i] = ByteCombine(Cur.field, r_a[i], MemAt(mem, SpecM)[i])
              /\ mem' = mem /\ r_x' = r_x ]_vars
    /\ [](SpecialTwice(12) => r_a = MemAt(mem, DataAddr))
    /\ []((SpecialTwice(9) /\ MemAt(mem, DataAddr)[0] \in {POS, NEG}) => r_a = MemAt(mem, DataAddr))

\* XOR with the negative operand has run twice on rA = -(129, 2, 3, 4, 5)
C38_Witness ==
    /\ SpecialTwice(12)
    /\ MemAt(mem, DataAddr + 2) = W6(NEG, 15, 240, 170, 85, 255)
    /\ r_a = W6(NEG, 129, 2, 3, 4, 5)

\* ------------------------------------------------------------------------
\* Properties: instructions as words
\* ------------------------------------------------------------------------

\* C39: the word an Instruction is encoded as decodes to an Instruction with
\* the same addr, index, field and opcode, for every opcode, every index and
\* field byte and every 16-bit signed addr, -32768 too.
C39_EncodeDecode ==
    (conv.len = 6 /\ conv.back # NoConv.back)
        => /\ conv.back.kind = "ok"
           /\ conv.back.addr = host_val.addr
           /\ conv.back.index = host_val.index
           /\ conv.back.field = host_val.field
           /\ conv.back.opcode = host_val.opcode

\* ------------------------------------------------------------------------
\* Properties: MOVE
\* ------------------------------------------------------------------------

\* T: the magnitude of rI1
MoveTarget == r_in[1][1] * 256 + r_in[1][2]

\* the next instruction is a MOVE whose source and destination lie in memory
MoveStep ==
    /\ StepCall /\ Fetches /\ Cur.opcode = OP_MOVE
    /\ Cur.index \in 0..6 /\ SpecM >= 0
    /\ SpecM + Cur.field <= MEM_SIZE /\ MoveTarget + Cur.field <= MEM_SIZE

\* the half word of an integer
HalfOf(k) ==
    [i \in 0..2 |-> IF i = 0 THEN (IF k < 0 THEN NEG ELSE POS)
                    ELSE IF i = 1 THEN (Abs(k) \div 256) % 256
                    ELSE Abs(k) % 256]

====
